---- MODULE Spec2Model ----
(***************************************************************************)
(* Model of the timetable update script (src/unnamed/part_000, lines       *)
(* 76-256): the update cycle of main, scrapeTimetablesForStation and the   *)
(* extractor scrapeYahooTimetable working on an abstract DOM.              *)
(*                                                                         *)
(* Text is a sequence of one-character strings.  The alphabet is digits,   *)
(* "a" (any character that is neither a digit, a sign nor white space),    *)
(* "-" and " " (white space).                                              *)
(***************************************************************************)
EXTENDS Integers, Sequences, FiniteSets, TLC

VARIABLES
    store,               \* data/stations.json on disk: the list under "stations"
    store0,              \* the content of the file when the cycle started
    stations,            \* main: existingData.stations, mutated in place
    pc,                  \* position of the running code
    si,                  \* main: index of the station of the for loop
    kind,                \* scrapeTimetablesForStation: 1 weekdays, 4 holidays
    di,                  \* scrapeTimetablesForStation: index of the direction
    timetables,          \* scrapeTimetablesForStation: the accumulator
    weekdaysTimetables,  \* main: result of the kind=1 scrape
    holidaysTimetables,  \* main: result of the kind=4 scrape
    updatedCount,        \* main: updatedCount
    inFlight,            \* URLs of the fetches that have not resolved yet
    response,            \* what the last fetch resolved to
    outcome,             \* how the last call of scrapeYahooTimetable ended
    timetableRows,       \* scrapeYahooTimetable: timetableRows
    ri,                  \* scrapeYahooTimetable: index of the row of the each loop
    departures,          \* scrapeYahooTimetable: departures
    yields,              \* console: "Extracted <n> departures", per station, direction, kind
    scraped,             \* main: the two arrays scraped for each station
    visited,             \* console: "Updating <name>...", as station indices
    fetchFailed,         \* console: "Error scraping <url>", as station indices
    updated,             \* console: "Successfully updated <name>", as indices
    errored,             \* console: "Error updating <name>", as station indices
    ioLog,               \* the reads and writes of data/stations.json, in order
    method,              \* handler: req.method ("script" when main runs)
    res,                 \* handler: the responses sent, [status, body]
    req,                 \* route search handler: req.method, req.body.from, req.body.to
    page,                \* route search handler: what the fetch of the result page gave
    totalTime,           \* route search handler: totalTime
    totalCost,           \* route search handler: totalCost
    transferCount,       \* route search handler: transferCount
    distance,            \* route search handler: distance
    route,               \* route search handler: route
    pageStation,         \* StationPage: the station prop
    selectedTab,         \* StationPage: selectedTab
    scheduleType,        \* StationPage: scheduleType
    updating,            \* Home: updating
    snackbar,            \* Home: snackbar
    pending,             \* Home: update requests sent and not yet answered
    reloadTimers,        \* Home: setTimeout callbacks that have not run yet
    clicks               \* Home: clicks on the update button so far

routeVars == << req, page, totalTime, totalCost, transferCount, distance, route >>

stationPageVars == << pageStation, selectedTab, scheduleType >>

homeVars == << updating, snackbar, pending, reloadTimers, clicks >>

uiVars == << routeVars, stationPageVars, homeVars >>

vars == << store, store0, uiVars, method, res, ioLog, errored, stations, pc, si, kind, di, timetables,
           weekdaysTimetables, holidaysTimetables, updatedCount, inFlight,
           response, outcome, timetableRows, ri, departures, yields, scraped, visited,
           fetchFailed, updated >>

\* the route search handler before a request
RouteIdle ==
    /\ req = [method |-> "none", from |-> "", to |-> ""]
    /\ page = [kind |-> "none"]
    /\ totalTime = 0 /\ totalCost = 0 /\ transferCount = 0 /\ distance = 0
    /\ route = << >>

\* no station page open
StationPageIdle ==
    /\ pageStation = [id |-> "none"]
    /\ selectedTab = 0
    /\ scheduleType = "weekdays"

\* the index page as useState initialises it
HomeIdle ==
    /\ updating = FALSE
    /\ snackbar = [open |-> FALSE, message |-> "", severity |-> "success"]
    /\ pending = 0
    /\ reloadTimers = 0
    /\ clicks = 0

UiIdle == RouteIdle /\ StationPageIdle /\ HomeIdle

-----------------------------------------------------------------------------
(* Text and the JavaScript string functions the extractor uses.            *)

Digits == {"0", "1", "2", "3", "4", "5", "6", "7", "8", "9"}

DigitVal(c) ==
    CASE c = "0" -> 0 [] c = "1" -> 1 [] c = "2" -> 2 [] c = "3" -> 3
      [] c = "4" -> 4 [] c = "5" -> 5 [] c = "6" -> 6 [] c = "7" -> 7
      [] c = "8" -> 8 [] c = "9" -> 9

IsSpace(c) == c = " "

RECURSIVE TrimLeft(_)
TrimLeft(s) ==
    IF s # << >> /\ IsSpace(Head(s)) THEN TrimLeft(Tail(s)) ELSE s

RECURSIVE TrimRight(_)
TrimRight(s) ==
    IF s # << >> /\ IsSpace(s[Len(s)])
    THEN TrimRight(SubSeq(s, 1, Len(s) - 1))
    ELSE s

\* String.prototype.trim
Trim(s) == TrimRight(TrimLeft(s))

\* the longest prefix of s made of digits: group 1 of /^(\d+)/, << >> for no match
RECURSIVE LeadingDigits(_)
LeadingDigits(s) ==
    IF s # << >> /\ Head(s) \in Digits
    THEN << Head(s) >> \o LeadingDigits(Tail(s))
    ELSE << >>

RECURSIVE DecimalValue(_)
DecimalValue(ds) ==
    IF ds = << >> THEN 0
    ELSE 10 * DecimalValue(SubSeq(ds, 1, Len(ds) - 1)) + DigitVal(ds[Len(ds)])

\* A JavaScript number that may be NaN: << >> is NaN, << n >> is the number n.
NaN == << >>
isNaN(x) == x = NaN

\* parseInt(string) with no radix: leading white space, an optional sign, then
\* the leading run of decimal digits; NaN when there is no digit.
parseInt(s) ==
    LET t    == TrimLeft(s)
        sign == t # << >> /\ Head(t) \in {"-", "+"}
        u    == IF sign THEN Tail(t) ELSE t
        ds   == LeadingDigits(u)
    IN  IF ds = << >> THEN NaN
        ELSE IF sign /\ Head(t) = "-" THEN << 0 - DecimalValue(ds) >>
        ELSE << DecimalValue(ds) >>

RECURSIVE Concat(_)
Concat(ss) == IF ss = << >> THEN << >> ELSE Head(ss) \o Concat(Tail(ss))

-----------------------------------------------------------------------------
(* The DOM.  A document is a sequence of tables, a table a class and its   *)
(* rows (tr), a row its cells (td or th), a cell its own text and the      *)
(* elements it holds (li or span), each of which has a text and holds      *)
(* further elements (span).  An element's text comes before its children.  *)

SubText(n)  == n.text
ItemText(n) == n.text \o Concat([k \in 1..Len(n.kids) |-> SubText(n.kids[k])])
CellText(c) == c.text \o Concat([k \in 1..Len(c.kids) |-> ItemText(c.kids[k])])

\* $(row).find('.col-hour').text().trim()
HourText(row) ==
    Trim(Concat([k \in 1..Len(row) |->
        IF row[k].cls = "col-hour" THEN CellText(row[k]) ELSE << >>]))

\* $(row).find('td, th').first().text().trim()
FirstCellText(row) ==
    IF row = << >> THEN << >> ELSE Trim(CellText(row[1]))

\* does the element of tag t inside cell c match '.col-min li, td li, td span'
MinSelectorMatches(c, t) ==
    \/ t = "li" /\ c.cls = "col-min"
    \/ t = "li" /\ c.tag = "td"
    \/ t = "span" /\ c.tag = "td"

\* What the callback reads of a matched element: the text of its descendants
\* of class time ($(minItem).find('.time').text()) and its own text.
ItemElem(n) ==
    [ timeText |-> Concat([k \in 1..Len(n.kids) |->
                      IF n.kids[k].cls = "time" THEN SubText(n.kids[k]) ELSE << >>]),
      ownText  |-> ItemText(n) ]
SubElem(n) == [ timeText |-> << >>, ownText |-> SubText(n) ]

\* the elements of one cell that the selector matches, in document order
CellMinItems(c) ==
    Concat([k \in 1..Len(c.kids) |->
        (IF MinSelectorMatches(c, c.kids[k].tag)
         THEN << ItemElem(c.kids[k]) >> ELSE << >>)
        \o Concat([j \in 1..Len(c.kids[k].kids) |->
              IF MinSelectorMatches(c, c.kids[k].kids[j].tag)
              THEN << SubElem(c.kids[k].kids[j]) >> ELSE << >>])])

\* $(row).find('.col-min li, td li, td span'): one selection, the union of
\* the three patterns, every element once, in document order
MinItems(row) == Concat([k \in 1..Len(row) |-> CellMinItems(row[k])])

\* the minute callback: the Departures one matched element adds
MinuteOf(hour, e) ==
    LET t1      == Trim(e.timeText)
        minText == IF t1 = << >> THEN Trim(e.ownText) ELSE t1
        match   == LeadingDigits(minText)
    IN  IF match # << >>
        THEN << [hour |-> hour, minute |-> DecimalValue(match)] >>
        ELSE << >>

\* the hour of a row: .col-hour first, then the first cell
RowHour_Zero(row) ==
    LET hour == parseInt(HourText(row))
        first == parseInt(FirstCellText(row))
    IN  IF isNaN(hour) THEN (IF isNaN(first) THEN << 0 >> ELSE first) ELSE hour

RowHour_FirstCellFirst(row) ==
    LET first == parseInt(FirstCellText(row))
    IN  IF isNaN(first) THEN parseInt(HourText(row)) ELSE first

RowHour(row) ==
    LET hour == parseInt(HourText(row))
    IN  IF isNaN(hour) THEN parseInt(FirstCellText(row)) ELSE hour

\* the row callback: the Departures one row adds
RowDepartures(row) ==
    LET hour  == RowHour(row)
        items == MinItems(row)
    IN  IF ~isNaN(hour)
        THEN Concat([j \in 1..Len(items) |-> MinuteOf(hour[1], items[j])])
        ELSE << >>

\* $('.tbl-dia tr'), and $('table tr') when that matches nothing
TimetableRows_PrimaryOnly(doc) ==
    Concat([k \in 1..Len(doc) |->
        IF doc[k].cls = "tbl-dia" THEN doc[k].rows ELSE << >>])

TimetableRows(doc) ==
    LET primary == Concat([k \in 1..Len(doc) |->
                       IF doc[k].cls = "tbl-dia" THEN doc[k].rows ELSE << >>])
        generic == Concat([k \in 1..Len(doc) |-> doc[k].rows])
    IN  IF Len(primary) = 0 THEN generic ELSE primary

\* the comparator of departures.sort
CompareDepartures(a, b) ==
    IF a.hour # b.hour THEN a.hour - b.hour ELSE a.minute - b.minute

\* Array.prototype.sort is stable: insertion after the last element that is
\* not greater
RECURSIVE InsertSorted(_, _)
InsertSorted(s, x) ==
    IF s = << >> THEN << x >>
    ELSE IF CompareDepartures(s[Len(s)], x) > 0
         THEN InsertSorted(SubSeq(s, 1, Len(s) - 1), x) \o << s[Len(s)] >>
         ELSE s \o << x >>

RECURSIVE SortDepartures(_)
SortDepartures(s) ==
    IF s = << >> THEN << >>
    ELSE InsertSorted(SortDepartures(SubSeq(s, 1, Len(s) - 1)), s[Len(s)])

\* the Departures of a document, in the order the callbacks push them
Accumulate(doc) ==
    LET rows == TimetableRows(doc)
    IN  Concat([k \in 1..Len(rows) |-> RowDepartures(rows[k])])

-----------------------------------------------------------------------------
(* What a fetch resolves to.  kind "neterr": fetch rejects; kind "bodyerr": *)
(* response.text() rejects; kind "http": a response with its ok flag and    *)
(* the document its body parses to (an error page is a document too).       *)

NetworkError == [kind |-> "neterr", ok |-> FALSE, doc |-> << >>]
BodyError    == [kind |-> "bodyerr", ok |-> TRUE, doc |-> << >>]
HttpResponse(ok, doc) == [kind |-> "http", ok |-> ok, doc |-> doc]

\* the try block up to cheerio.load: does it throw
FetchThrows(resp) ==
    \/ resp.kind = "neterr"
    \/ resp.kind = "http" /\ ~resp.ok
    \/ resp.kind = "bodyerr"

Returned(v) == [threw |-> FALSE, value |-> v]
Thrown      == [threw |-> TRUE, value |-> << >>]

\* the try block of scrapeYahooTimetable
TryScrape(resp) ==
    IF FetchThrows(resp) THEN Thrown
    ELSE Returned(SortDepartures(Accumulate(resp.doc)))

\* the catch block of scrapeYahooTimetable: log, return []
CatchScrape_Rethrow(r) == r
CatchScrape(r) == IF r.threw THEN Returned(<< >>) ELSE r

scrapeYahooTimetable(resp) == CatchScrape(TryScrape(resp))

-----------------------------------------------------------------------------
(* The documents the extractor is run on.                                    *)

Span(cls, t)       == [tag |-> "span", cls |-> cls, text |-> t]
Li(t, kids)        == [tag |-> "li", cls |-> "", text |-> t, kids |-> kids]
BareSpan(t)        == [tag |-> "span", cls |-> "", text |-> t, kids |-> << >>]
Cell(tag, cls, t, kids) == [tag |-> tag, cls |-> cls, text |-> t, kids |-> kids]
Table(cls, rows)   == [cls |-> cls, rows |-> rows]

MaxRows == 2

\* the cells a row starts with
HourParts ==
    { << Cell("td", "col-hour", << "7" >>, << >>) >>,
      << Cell("td", "col-hour", << " ", "8" >>, << >>) >>,
      << Cell("td", "col-hour", << "3", "0" >>, << >>) >>,
      << Cell("th", "", << "a" >>, << >>) >>,
      << Cell("td", "", << "7", "a" >>, << >>) >>,
      << Cell("td", "", << "a" >>, << >>),
         Cell("td", "col-hour", << "8" >>, << >>) >>,
      << Cell("td", "", << "9" >>, << >>),
         Cell("td", "col-hour", << "8" >>, << >>) >> }

\* the cell a row ends with
MinuteCells ==
    { Cell("td", "", << >>,
           << Li(<< >>, << Span("time", << "0", "5" >>) >>),
              Li(<< >>, << Span("time", << "2", "3" >>) >>) >>),
      Cell("td", "col-min", << >>,
           << Li(<< "4", "0" >>, << >>), Li(<< "1", "0", "a" >>, << >>) >>),
      Cell("td", "", << >>,
           << Li(<< "7", "5" >>, << >>), BareSpan(<< "a" >>) >>),
      Cell("th", "col-min", << >>,
           << Li(<< "0", "5" >>, << >>), BareSpan(<< "5", "9" >>) >>) }

Rows == { h \o << m >> : h \in HourParts, m \in MinuteCells }

RowSeqs == UNION { [1..n -> Rows] : n \in 0..MaxRows }

\* one table of up to MaxRows rows, or two tables of one row each
Docs ==
    { << Table(c, rs) >> : c \in {"tbl-dia", ""}, rs \in RowSeqs }
    \cup { << Table(c1, << r1 >>), Table(c2, << r2 >>) >> :
               c1 \in {"tbl-dia", ""}, c2 \in {"tbl-dia", ""},
               r1 \in Rows, r2 \in Rows }

ExtractResponses ==
    {NetworkError, BodyError} \cup { HttpResponse(o, d) : o \in BOOLEAN, d \in Docs }

-----------------------------------------------------------------------------
(* The extractor step by step: the fetch, the each loop over the rows, the  *)
(* sort and the return.                                                     *)

NoResponse == [kind |-> "none", ok |-> FALSE, doc |-> << >>]

ExtractInit ==
    /\ response \in ExtractResponses
    /\ pc = "extract"
    /\ outcome = Returned(<< >>)
    /\ timetableRows = << >>
    /\ ri = 1
    /\ departures = << >>
    /\ store = << >> /\ store0 = << >> /\ stations = << >>
    /\ UiIdle
    /\ si = 1 /\ kind = 1 /\ di = 1
    /\ timetables = << >>
    /\ weekdaysTimetables = << >> /\ holidaysTimetables = << >>
    /\ updatedCount = 0
    /\ inFlight = {}
    /\ yields = {}
    /\ scraped = {}
    /\ visited = << >>
    /\ fetchFailed = {}
    /\ updated = {}
    /\ errored = {}
    /\ ioLog = << >>
    /\ method = "none"
    /\ res = << >>

cycleVars == << store, store0, uiVars, method, res, ioLog, errored, stations, si, kind, di, timetables,
                weekdaysTimetables, holidaysTimetables, updatedCount, inFlight,
                yields, scraped, visited, fetchFailed, updated >>

\* fetch, response.ok, response.text(), cheerio.load and the row selection
ExtractFetch ==
    /\ pc = "extract"
    /\ IF FetchThrows(response)
       THEN /\ outcome' = CatchScrape(Thrown)
            /\ pc' = IF outcome'.threw THEN "threw" ELSE "extracted"
            /\ UNCHANGED << timetableRows, ri, departures >>
       ELSE /\ timetableRows' = TimetableRows(response.doc)
            /\ ri' = 1
            /\ departures' = << >>
            /\ pc' = "rows"
            /\ UNCHANGED outcome
    /\ UNCHANGED << response, cycleVars >>

\* one call of the callback of timetableRows.each
ExtractRow ==
    /\ pc = "rows"
    /\ ri <= Len(timetableRows)
    /\ departures' = departures \o RowDepartures(timetableRows[ri])
    /\ ri' = ri + 1
    /\ UNCHANGED << pc, outcome, timetableRows, response, cycleVars >>

\* departures.sort and return departures
ExtractSort ==
    /\ pc = "rows"
    /\ ri > Len(timetableRows)
    /\ outcome' = Returned(SortDepartures(departures))
    /\ pc' = "extracted"
    /\ UNCHANGED << timetableRows, ri, departures, response, cycleVars >>

ExtractNext == ExtractFetch \/ ExtractRow \/ ExtractSort

SpecExtract == ExtractInit /\ [][ExtractNext]_vars

\* the steps end with what scrapeYahooTimetable, as one function, returns
ExtractAgrees == pc = "extracted" => outcome = scrapeYahooTimetable(response)

-----------------------------------------------------------------------------
(* The update cycle: main and scrapeTimetablesForStation.                   *)

\* STATION_CONFIG
STATION_CONFIG ==
    [ hankai_abikomichi |->
        [id |-> "25809", directions |-> << [name |-> "Tennoji-ekimae", gid |-> 5690],
                                           [name |-> "Hamadera-ekimae", gid |-> 5691] >>],
      nankai_suminoe |->
        [id |-> "25989", directions |-> << [name |-> "Namba", gid |-> 3950],
                                           [name |-> "Wakayamashi", gid |-> 3951] >>],
      nankai_abikomae |->
        [id |-> "25808", directions |-> << [name |-> "Namba", gid |-> 4010],
                                           [name |-> "Koyasan", gid |-> 4011] >>],
      jr_sugimotocho |->
        [id |-> "25988", directions |-> << [name |-> "Tennoji", gid |-> 1720],
                                           [name |-> "Wakayama", gid |-> 1721] >>] ]

\* the names every object literal inherits from Object.prototype
ObjectPrototypeKeys == {"constructor"}

\* !config is false: STATION_CONFIG[station.id] is an entry of the table, or
\* a value inherited from Object.prototype
HasConfig(id) == id \in DOMAIN STATION_CONFIG \/ id \in ObjectPrototypeKeys

\* config.directions is a list: only the entries of the table have one
HasDirections(id) == id \in DOMAIN STATION_CONFIG

\* the url of scrapeTimetablesForStation
Url(config, direction, k) == << config.id, direction.gid, k >>

\* the condition under which main assigns station.timetables
CommitPolicy_Either(w, h) == Len(w) > 0 \/ Len(h) > 0
CommitPolicy_AllDirections(w, h) == Len(w) = 2 /\ Len(h) = 2
CommitPolicy(w, h) == Len(w) > 0 /\ Len(h) > 0

\* if (departures.length > 0) timetables.push({direction, departures})
PushTimetable_Front(tt, name, deps) ==
    IF Len(deps) > 0
    THEN << [direction |-> name, departures |-> deps] >> \o tt
    ELSE tt

PushTimetable_Always(tt, name, deps) ==
    Append(tt, [direction |-> name, departures |-> deps])
PushTimetable(tt, name, deps) ==
    IF Len(deps) > 0
    THEN Append(tt, [direction |-> name, departures |-> deps])
    ELSE tt

(* The store the cycle starts from and the pages the transit site serves.  *)

MaxStations == 2

StoreIds == {"hankai_abikomichi", "nankai_suminoe", "unknown_station", "constructor"}

\* the record of an earlier cycle: the first direction of the station, with
\* departures no page of this cycle holds
OldDirection(id) ==
    IF id \in DOMAIN STATION_CONFIG THEN STATION_CONFIG[id].directions[1].name
    ELSE "old direction"

OldTimetables(id) ==
    [ weekdays |-> << [direction |-> OldDirection(id),
                       departures |-> << [hour |-> 6, minute |-> 0] >>] >>,
      holidays |-> << [direction |-> OldDirection(id),
                       departures |-> << [hour |-> 6, minute |-> 30] >>] >> ]

StationRecord(id) ==
    [ id |-> id, name |-> << "name", id >>, lineName |-> << "line", id >>,
      color |-> << "color", id >>, timetables |-> OldTimetables(id) ]

Stores ==
    UNION { [1..n -> { StationRecord(id) : id \in StoreIds }] : n \in 0..MaxStations }

\* a page of plain list items: one row of hour 7 with three minutes
PageThree ==
    << Table("tbl-dia",
        << << Cell("td", "col-hour", << "7" >>, << >>),
              Cell("td", "col-min", << >>,
                   << Li(<< "2", "3" >>, << >>), Li(<< "0", "5" >>, << >>),
                      Li(<< "4", "0" >>, << >>) >>) >> >>) >>

\* two rows, the later hour first, one minute each
PageTwo ==
    << Table("",
        << << Cell("td", "", << "8" >>, << >>),
              Cell("th", "col-min", << >>, << Li(<< "1", "0" >>, << >>) >>) >>,
           << Cell("td", "", << "7" >>, << >>),
              Cell("th", "col-min", << >>, << Li(<< "5", "5" >>, << >>) >>) >> >>) >>

\* one row whose two list items each hold a span of class time
PageSpans ==
    << Table("",
        << << Cell("td", "col-hour", << "7" >>, << >>),
              Cell("td", "", << >>,
                   << Li(<< >>, << Span("time", << "0", "5" >>) >>),
                      Li(<< >>, << Span("time", << "2", "3" >>) >>) >>) >> >>) >>

\* a page with a header row only
PageHeader ==
    << Table("tbl-dia",
        << << Cell("th", "", << "a" >>, << >>),
              Cell("th", "", << "a" >>, << >>) >> >>) >>

\* What the site may answer for a url: the first direction of a station is
\* served PageThree or PageHeader, the second one PageTwo on weekdays and
\* PageSpans on holidays, and every fetch may fail.
Upstream(url) ==
    IF url[2] % 2 = 0
    THEN { NetworkError, HttpResponse(FALSE, PageThree),
           HttpResponse(TRUE, PageThree), HttpResponse(TRUE, PageHeader) }
    ELSE IF url[3] = 1
         THEN { NetworkError, HttpResponse(TRUE, PageTwo) }
         ELSE { BodyError, HttpResponse(TRUE, PageSpans) }

Init ==
    /\ store \in Stores
    /\ store0 = store
    /\ UiIdle
    /\ stations = << >>
    /\ pc = "start"
    /\ si = 1 /\ kind = 1 /\ di = 1
    /\ timetables = << >>
    /\ weekdaysTimetables = << >> /\ holidaysTimetables = << >>
    /\ updatedCount = 0
    /\ inFlight = {}
    /\ response = NoResponse
    /\ outcome = Returned(<< >>)
    /\ timetableRows = << >> /\ ri = 1 /\ departures = << >>
    /\ yields = {}
    /\ scraped = {}
    /\ visited = << >>
    /\ fetchFailed = {}
    /\ updated = {}
    /\ errored = {}
    /\ ioLog = << >>
    /\ method = "script"
    /\ res = << >>

extractVars == << timetableRows, ri, departures >>

\* fs.readFileSync and JSON.parse; either may throw, into the catch of main
ReadStore ==
    /\ pc = "start"
    /\ \/ /\ stations' = store
          /\ ioLog' = Append(ioLog, "read")
          /\ pc' = "loop"
       \/ /\ ioLog' = Append(ioLog, "readfail")
          /\ pc' = "error"
          /\ UNCHANGED stations
    /\ si' = 1
    /\ updatedCount' = 0
    /\ UNCHANGED << store, store0, uiVars, method, res, errored, kind, di, timetables, weekdaysTimetables,
                    holidaysTimetables, inFlight, response, outcome, extractVars,
                    yields, scraped, visited, fetchFailed, updated >>

\* the loop head for a station without configuration: continue
SkipStation_Break ==
    /\ pc = "loop"
    /\ si <= Len(stations)
    /\ ~HasConfig(stations[si].id)
    /\ visited' = Append(visited, si)
    /\ si' = Len(stations) + 1
    /\ UNCHANGED << store, store0, uiVars, method, res, ioLog, errored, stations, pc, kind, di, timetables,
                    weekdaysTimetables, holidaysTimetables, updatedCount, inFlight,
                    response, outcome, extractVars, yields, scraped, fetchFailed, updated >>

SkipStation_Counted ==
    /\ pc = "loop"
    /\ si <= Len(stations)
    /\ ~HasConfig(stations[si].id)
    /\ visited' = Append(visited, si)
    /\ si' = si + 1
    /\ updatedCount' = updatedCount + 1
    /\ UNCHANGED << store, store0, uiVars, method, res, ioLog, errored, stations, pc, kind, di, timetables,
                    weekdaysTimetables, holidaysTimetables, inFlight,
                    response, outcome, extractVars, yields, scraped, fetchFailed, updated >>

SkipStation ==
    /\ pc = "loop"
    /\ si <= Len(stations)
    /\ ~HasConfig(stations[si].id)
    /\ visited' = Append(visited, si)
    /\ si' = si + 1
    /\ UNCHANGED << store, store0, uiVars, method, res, ioLog, errored, stations, pc, kind, di, timetables,
                    weekdaysTimetables, holidaysTimetables, updatedCount, inFlight,
                    response, outcome, extractVars, yields, scraped, fetchFailed, updated >>

\* the loop head for a configured station: call scrapeTimetablesForStation(config, 1)
BeginStation ==
    /\ pc = "loop"
    /\ si <= Len(stations)
    /\ HasConfig(stations[si].id)
    /\ visited' = Append(visited, si)
    /\ kind' = 1
    /\ di' = 1
    /\ timetables' = << >>
    /\ weekdaysTimetables' = << >>
    /\ holidaysTimetables' = << >>
    /\ pc' = "scrape"
    /\ UNCHANGED << store, store0, uiVars, method, res, ioLog, errored, stations, si, updatedCount, inFlight, response,
                    outcome, extractVars, yields, scraped, fetchFailed, updated >>

Config == STATION_CONFIG[stations[si].id]

\* for (const direction of config.directions) when config.directions is
\* undefined: a TypeError leaves scrapeTimetablesForStation and is caught by
\* the catch of the station loop, which logs it; the loop goes on
StationThrows_Abort ==
    /\ pc = "scrape"
    /\ ~HasDirections(stations[si].id)
    /\ errored' = errored \cup {si}
    /\ pc' = "error"
    /\ UNCHANGED << store, store0, uiVars, method, res, ioLog, stations, si, kind, di,
                    timetables, weekdaysTimetables, holidaysTimetables, updatedCount,
                    inFlight, response, outcome, extractVars, yields, scraped,
                    visited, fetchFailed, updated >>

StationThrows ==
    /\ pc = "scrape"
    /\ ~HasDirections(stations[si].id)
    /\ errored' = errored \cup {si}
    /\ si' = si + 1
    /\ pc' = "loop"
    /\ UNCHANGED << store, store0, uiVars, method, res, ioLog, stations, kind, di,
                    timetables, weekdaysTimetables, holidaysTimetables, updatedCount,
                    inFlight, response, outcome, extractVars, yields, scraped,
                    visited, fetchFailed, updated >>

\* the loop over config.directions: build the url, call fetch, await
StartFetch_All ==
    /\ pc = "scrape"
    /\ HasDirections(stations[si].id)
    /\ di <= Len(Config.directions)
    /\ inFlight' = inFlight \cup { Url(Config, Config.directions[d], kind) :
                                      d \in di..Len(Config.directions) }
    /\ pc' = "await"
    /\ UNCHANGED << store, store0, uiVars, method, res, ioLog, errored, stations, si, kind,
                    di, timetables, weekdaysTimetables, holidaysTimetables,
                    updatedCount, response, outcome, extractVars, yields, scraped,
                    visited, fetchFailed, updated >>

StartFetch ==
    /\ pc = "scrape"
    /\ HasDirections(stations[si].id)
    /\ di <= Len(Config.directions)
    /\ inFlight' = inFlight \cup { Url(Config, Config.directions[di], kind) }
    /\ pc' = "await"
    /\ UNCHANGED << store, store0, uiVars, method, res, ioLog, errored, stations, si, kind, di, timetables,
                    weekdaysTimetables, holidaysTimetables, updatedCount, response,
                    outcome, extractVars, yields, scraped, visited, fetchFailed, updated >>

\* The fetch resolves: the rest of scrapeYahooTimetable, then the push of
\* scrapeTimetablesForStation.  An exception scrapeYahooTimetable lets through
\* leaves both functions and reaches the catch of the station loop.
FetchDone_Abort ==
    /\ pc = "await"
    /\ \E resp \in Upstream(Url(Config, Config.directions[di], kind)) :
         /\ response' = resp
         /\ outcome' = scrapeYahooTimetable(resp)
         /\ inFlight' = inFlight \ { Url(Config, Config.directions[di], kind) }
         /\ IF FetchThrows(resp)
            THEN /\ pc' = "error"
                 /\ fetchFailed' = fetchFailed \cup {si}
                 /\ UNCHANGED << timetables, yields, di, si >>
            ELSE /\ timetables' = PushTimetable(timetables, Config.directions[di].name,
                                                outcome'.value)
                 /\ yields' = yields \cup
                        { [station |-> si, dir |-> di, kind |-> kind,
                           n |-> Len(outcome'.value)] }
                 /\ di' = di + 1
                 /\ pc' = "scrape"
                 /\ UNCHANGED << si, fetchFailed >>
    /\ UNCHANGED << store, store0, uiVars, method, res, ioLog, errored, stations, kind, weekdaysTimetables,
                    holidaysTimetables, updatedCount, extractVars, scraped, visited,
                    updated >>

FetchDone_Retry ==
    /\ pc = "await"
    /\ \E resp \in Upstream(Url(Config, Config.directions[di], kind)) :
         /\ response' = resp
         /\ outcome' = scrapeYahooTimetable(resp)
         /\ inFlight' = inFlight \ { Url(Config, Config.directions[di], kind) }
         /\ fetchFailed' = IF FetchThrows(resp) THEN fetchFailed \cup {si}
                           ELSE fetchFailed
         /\ IF outcome'.threw
            THEN /\ pc' = "loop"
                 /\ si' = si + 1
                 /\ UNCHANGED << timetables, yields, di >>
            ELSE /\ timetables' = PushTimetable(timetables, Config.directions[di].name,
                                                outcome'.value)
                 /\ yields' = yields \cup
                        { [station |-> si, dir |-> di, kind |-> kind,
                           n |-> Len(outcome'.value)] }
                 /\ di' = IF FetchThrows(resp) THEN di ELSE di + 1
                 /\ pc' = "scrape"
                 /\ UNCHANGED si
    /\ UNCHANGED << store, store0, uiVars, method, res, ioLog, errored, stations, kind, weekdaysTimetables,
                    holidaysTimetables, updatedCount, extractVars, scraped, visited,
                    updated >>

FetchDone ==
    /\ pc = "await"
    /\ \E resp \in Upstream(Url(Config, Config.directions[di], kind)) :
         /\ response' = resp
         /\ outcome' = scrapeYahooTimetable(resp)
         /\ inFlight' = inFlight \ { Url(Config, Config.directions[di], kind) }
         /\ fetchFailed' = IF FetchThrows(resp) THEN fetchFailed \cup {si}
                           ELSE fetchFailed
         /\ IF outcome'.threw
            THEN /\ pc' = "loop"
                 /\ si' = si + 1
                 /\ UNCHANGED << timetables, yields, di >>
            ELSE /\ timetables' = PushTimetable(timetables, Config.directions[di].name,
                                                outcome'.value)
                 /\ yields' = yields \cup
                        { [station |-> si, dir |-> di, kind |-> kind,
                           n |-> Len(outcome'.value)] }
                 /\ di' = di + 1
                 /\ pc' = "scrape"
                 /\ UNCHANGED si
    /\ UNCHANGED << store, store0, uiVars, method, res, ioLog, errored, stations, kind, weekdaysTimetables,
                    holidaysTimetables, updatedCount, extractVars, scraped, visited,
                    updated >>

\* return timetables: to weekdaysTimetables, and main calls
\* scrapeTimetablesForStation(config, 4); or to holidaysTimetables
ReturnTimetables_Swapped ==
    /\ pc = "scrape"
    /\ HasDirections(stations[si].id)
    /\ di > Len(Config.directions)
    /\ \/ /\ kind = 1
          /\ holidaysTimetables' = timetables
          /\ kind' = 4
          /\ di' = 1
          /\ timetables' = << >>
          /\ pc' = "scrape"
          /\ UNCHANGED weekdaysTimetables
       \/ /\ kind = 4
          /\ weekdaysTimetables' = timetables
          /\ pc' = "commit"
          /\ UNCHANGED << holidaysTimetables, kind, di, timetables >>
    /\ response' = NoResponse
    /\ outcome' = Returned(<< >>)
    /\ UNCHANGED << store, store0, uiVars, method, res, ioLog, errored, stations, si, updatedCount, inFlight,
                    extractVars, yields, scraped, visited, fetchFailed, updated >>

ReturnTimetables ==
    /\ pc = "scrape"
    /\ HasDirections(stations[si].id)
    /\ di > Len(Config.directions)
    /\ \/ /\ kind = 1
          /\ weekdaysTimetables' = timetables
          /\ kind' = 4
          /\ di' = 1
          /\ timetables' = << >>
          /\ pc' = "scrape"
          /\ UNCHANGED holidaysTimetables
       \/ /\ kind = 4
          /\ holidaysTimetables' = timetables
          /\ pc' = "commit"
          /\ UNCHANGED << weekdaysTimetables, kind, di, timetables >>
    /\ response' = NoResponse
    /\ outcome' = Returned(<< >>)
    /\ UNCHANGED << store, store0, uiVars, method, res, ioLog, errored, stations, si, updatedCount, inFlight,
                    extractVars, yields, scraped, visited, fetchFailed, updated >>

\* station.timetables = { weekdays, holidays }: the other fields stay, the
\* value of timetables is replaced as a whole
AssignTimetables_Merge(st, t) ==
    LET KeepMissing(new, old) ==
            new \o SelectSeq(old, LAMBDA o :
                        \A k \in 1..Len(new) : new[k].direction # o.direction)
    IN  [st EXCEPT !.timetables =
            IF "weekdays" \in DOMAIN t /\ "weekdays" \in DOMAIN st.timetables
            THEN [weekdays |-> KeepMissing(t.weekdays, st.timetables.weekdays),
                  holidays |-> KeepMissing(t.holidays, st.timetables.holidays)]
            ELSE t]

AssignTimetables_Fresh(st, t) ==
    [id |-> st.id, name |-> << "name", "scraped" >>, lineName |-> st.lineName,
     color |-> st.color,
     timetables |-> t]

AssignTimetables(st, t) == [st EXCEPT !.timetables = t]

\* the if of main that assigns station.timetables, and the end of the loop body
Commit_CountAlways ==
    /\ pc = "commit"
    /\ IF CommitPolicy(weekdaysTimetables, holidaysTimetables)
       THEN /\ stations' = [stations EXCEPT ![si] =
                               AssignTimetables(stations[si],
                                   [weekdays |-> weekdaysTimetables,
                                    holidays |-> holidaysTimetables])]
            /\ updated' = updated \cup {si}
       ELSE UNCHANGED << stations, updated >>
    /\ updatedCount' = updatedCount + 1
    /\ scraped' = scraped \cup { [station |-> si, weekdays |-> weekdaysTimetables,
                                   holidays |-> holidaysTimetables] }
    /\ si' = si + 1
    /\ pc' = "loop"
    /\ UNCHANGED << store, store0, uiVars, method, res, ioLog, errored, kind, di, timetables, weekdaysTimetables,
                    holidaysTimetables, inFlight, response, outcome, extractVars,
                    yields, visited, fetchFailed >>

Commit_SaveEach ==
    /\ pc = "commit"
    /\ IF CommitPolicy(weekdaysTimetables, holidaysTimetables)
       THEN /\ stations' = [stations EXCEPT ![si] =
                               AssignTimetables(stations[si],
                                   [weekdays |-> weekdaysTimetables,
                                    holidays |-> holidaysTimetables])]
            /\ updatedCount' = updatedCount + 1
            /\ updated' = updated \cup {si}
       ELSE UNCHANGED << stations, updatedCount, updated >>
    /\ scraped' = scraped \cup { [station |-> si, weekdays |-> weekdaysTimetables,
                                   holidays |-> holidaysTimetables] }
    /\ si' = si + 1
    /\ pc' = "loop"
    /\ store' = stations'
    /\ ioLog' = Append(ioLog, "write")
    /\ UNCHANGED << store0, uiVars, method, res, errored, kind, di, timetables, weekdaysTimetables,
                    holidaysTimetables, inFlight, response, outcome, extractVars,
                    yields, visited, fetchFailed >>

Commit ==
    /\ pc = "commit"
    /\ IF CommitPolicy(weekdaysTimetables, holidaysTimetables)
       THEN /\ stations' = [stations EXCEPT ![si] =
                               AssignTimetables(stations[si],
                                   [weekdays |-> weekdaysTimetables,
                                    holidays |-> holidaysTimetables])]
            /\ updatedCount' = updatedCount + 1
            /\ updated' = updated \cup {si}
       ELSE UNCHANGED << stations, updatedCount, updated >>
    /\ scraped' = scraped \cup { [station |-> si, weekdays |-> weekdaysTimetables,
                                   holidays |-> holidaysTimetables] }
    /\ si' = si + 1
    /\ pc' = "loop"
    /\ UNCHANGED << store, store0, uiVars, method, res, ioLog, errored, kind, di, timetables, weekdaysTimetables,
                    holidaysTimetables, inFlight, response, outcome, extractVars,
                    yields, visited, fetchFailed >>

\* after the loop: fs.writeFileSync of all the stations; it may throw, into
\* the catch of main
WriteStore ==
    /\ pc = "loop"
    /\ si > Len(stations)
    /\ \/ /\ store' = stations
          /\ ioLog' = Append(ioLog, "write")
          /\ pc' = "written"
       \/ /\ ioLog' = Append(ioLog, "writefail")
          /\ pc' = "error"
          /\ UNCHANGED store
    /\ UNCHANGED << store0, uiVars, method, res, errored, stations, si, kind, di, timetables, weekdaysTimetables,
                    holidaysTimetables, updatedCount, inFlight, response, outcome,
                    extractVars, yields, scraped, visited, fetchFailed, updated >>

Next ==
    \/ ReadStore
    \/ SkipStation
    \/ BeginStation
    \/ StationThrows
    \/ StartFetch
    \/ FetchDone
    \/ ReturnTimetables
    \/ Commit
    \/ WriteStore

Spec == Init /\ [][Next]_vars

\* the cycle under the assumption that every fetch resolves or fails: the
\* script is one sequential async function, whose next step is always taken
SpecLive == Spec /\ WF_vars(Next)

-----------------------------------------------------------------------------
(* The API handler of src/pages/api/update-timetable.ts: the same cycle,    *)
(* started by a request, with scrapeTimetableForStation in place of the     *)
(* Yahoo scraper.  A value of station.timetables is an object with weekdays *)
(* and holidays, or an array of Timetables, written [items |-> the array].  *)

\* scrapeHankaiTimetable, scrapeNankaiTimetable, scrapeJRTimetable
scrapeHankaiTimetable(station) == station.timetables
scrapeNankaiTimetable(station, stationName) == station.timetables
scrapeJRTimetable_Sample(station) ==
    [items |-> << [direction |-> "Tennoji",
                   departures |-> << [hour |-> 5, minute |-> 0] >>] >>]

scrapeJRTimetable(station) == station.timetables

\* the switch of scrapeTimetableForStation
scrapeTimetableForStation(station) ==
    CASE station.id = "hankai_abikomichi" -> scrapeHankaiTimetable(station)
      [] station.id = "nankai_suminoe" -> scrapeNankaiTimetable(station, "Suminoe")
      [] station.id = "nankai_abikomae" -> scrapeNankaiTimetable(station, "Abikomae")
      [] station.id = "jr_sugimotocho" -> scrapeJRTimetable(station)
      [] OTHER -> station.timetables

\* updatedTimetables && updatedTimetables.length > 0: length is undefined for
\* an object that is not an array, and undefined > 0 is false
HasTimetables(t) == "items" \in DOMAIN t /\ Len(t.items) > 0

\* if (req.method !== 'POST')
MethodAllowed_Any(m) == TRUE
MethodAllowed(m) == m = "POST"

ApiStoreIds == {"hankai_abikomichi", "jr_sugimotocho", "unknown_station"}

LegacyTimetables(id) ==
    [ items |-> << [direction |-> OldDirection(id),
                    departures |-> << [hour |-> 6, minute |-> 0] >>] >> ]

ApiStationRecords ==
    UNION { { [StationRecord(id) EXCEPT !.timetables = t] :
                t \in { OldTimetables(id), LegacyTimetables(id), [items |-> << >>] } } :
            id \in ApiStoreIds }

ApiStores == UNION { [1..n -> ApiStationRecords] : n \in 0..MaxStations }

ApiInit ==
    /\ method \in {"POST", "GET"}
    /\ store \in ApiStores
    /\ store0 = store
    /\ UiIdle
    /\ stations = << >>
    /\ pc = "h_start"
    /\ res = << >>
    /\ si = 1 /\ kind = 1 /\ di = 1
    /\ timetables = << >>
    /\ weekdaysTimetables = << >> /\ holidaysTimetables = << >>
    /\ updatedCount = 0
    /\ inFlight = {}
    /\ response = NoResponse
    /\ outcome = Returned(<< >>)
    /\ timetableRows = << >> /\ ri = 1 /\ departures = << >>
    /\ yields = {}
    /\ scraped = {}
    /\ visited = << >>
    /\ fetchFailed = {}
    /\ updated = {}
    /\ errored = {}
    /\ ioLog = << >>

scriptVars == << kind, di, timetables, weekdaysTimetables, holidaysTimetables,
                 inFlight, response, outcome, extractVars, yields, scraped,
                 fetchFailed, errored >>

\* the body of the 405 response
MethodNotAllowed == [error |-> "Method not allowed"]

\* the body of the 500 response
ErrorBody == [error |-> "update error"]

\* a request whose method is not POST: 405
ApiReject ==
    /\ pc = "h_start"
    /\ ~MethodAllowed(method)
    /\ res' = Append(res, [status |-> 405, body |-> MethodNotAllowed])
    /\ pc' = "h_done"
    /\ UNCHANGED << store, store0, uiVars, method, ioLog, stations, si, updatedCount,
                    visited, updated, scriptVars >>

\* fs.readFileSync and JSON.parse; either may throw, into the catch of the
\* handler, which answers 500
ApiReadStore_Continue ==
    /\ pc = "h_start"
    /\ MethodAllowed(method)
    /\ \/ /\ stations' = store
          /\ ioLog' = Append(ioLog, "read")
          /\ pc' = "h_loop"
          /\ UNCHANGED res
       \/ /\ ioLog' = Append(ioLog, "readfail")
          /\ stations' = << >>
          /\ pc' = "h_loop"
          /\ UNCHANGED res
    /\ si' = 1
    /\ updatedCount' = 0
    /\ UNCHANGED << store, store0, uiVars, method, visited, updated, scriptVars >>

ApiReadStore ==
    /\ pc = "h_start"
    /\ MethodAllowed(method)
    /\ \/ /\ stations' = store
          /\ ioLog' = Append(ioLog, "read")
          /\ pc' = "h_loop"
          /\ UNCHANGED res
       \/ /\ ioLog' = Append(ioLog, "readfail")
          /\ res' = Append(res, [status |-> 500, body |-> ErrorBody])
          /\ pc' = "h_done"
          /\ UNCHANGED stations
    /\ si' = 1
    /\ updatedCount' = 0
    /\ UNCHANGED << store, store0, uiVars, method, visited, updated, scriptVars >>

\* one turn of the station loop of the handler
ApiStation ==
    /\ pc = "h_loop"
    /\ si <= Len(stations)
    /\ visited' = Append(visited, si)
    /\ LET updatedTimetables == scrapeTimetableForStation(stations[si])
       IN  IF HasTimetables(updatedTimetables)
           THEN /\ stations' = [stations EXCEPT ![si] =
                                   AssignTimetables(stations[si], updatedTimetables)]
                /\ updatedCount' = updatedCount + 1
                /\ updated' = updated \cup {si}
           ELSE UNCHANGED << stations, updatedCount, updated >>
    /\ si' = si + 1
    /\ UNCHANGED << store, store0, uiVars, method, res, ioLog, pc, scriptVars >>

\* fs.writeFileSync and the 200 response; a write that throws reaches the
\* catch of the handler, which answers 500
ApiWriteStore ==
    /\ pc = "h_loop"
    /\ si > Len(stations)
    /\ \/ /\ store' = stations
          /\ ioLog' = Append(ioLog, "write")
          /\ res' = Append(res, [status |-> 200,
                                 body |-> [success |-> TRUE,
                                           updatedStations |-> updatedCount]])
       \/ /\ ioLog' = Append(ioLog, "writefail")
          /\ res' = Append(res, [status |-> 500, body |-> ErrorBody])
          /\ UNCHANGED store
    /\ pc' = "h_done"
    /\ UNCHANGED << store0, uiVars, method, stations, si, updatedCount, visited, updated,
                    scriptVars >>

ApiNext == ApiReject \/ ApiReadStore \/ ApiStation \/ ApiWriteStore

\* a request to the handler
SpecApi == ApiInit /\ [][ApiNext]_vars

\* a run of the script or a request to the handler
SpecAll == (Init \/ ApiInit) /\ [][Next \/ ApiNext]_vars

-----------------------------------------------------------------------------
(* The route search handler (src/unnamed/part_001).  Its texts use, next   *)
(* to the digits, " ", "," and ".", one string per character the patterns  *)
(* name: "JI" "KAN" (hours), "FUN" (minutes), "KAI" (times), "NORI" "KAE"  *)
(* (transfer), "TO" "HO" (on foot), "k", "m", and "a" for any other.       *)

\* every variable of the update cycle, which these pages do not touch
backVars == << store, store0, method, ioLog, errored, stations, si, kind, di,
               timetables, weekdaysTimetables, holidaysTimetables, updatedCount,
               inFlight, response, outcome, timetableRows, ri, departures, yields,
               scraped, visited, fetchFailed, updated >>

BackIdle ==
    /\ store = << >> /\ store0 = << >> /\ stations = << >>
    /\ method = "none"
    /\ ioLog = << >>
    /\ si = 1 /\ kind = 1 /\ di = 1
    /\ timetables = << >>
    /\ weekdaysTimetables = << >> /\ holidaysTimetables = << >>
    /\ updatedCount = 0
    /\ inFlight = {}
    /\ response = [kind |-> "none", ok |-> FALSE, doc |-> << >>]
    /\ outcome = Returned(<< >>)
    /\ timetableRows = << >> /\ ri = 1 /\ departures = << >>
    /\ yields = {} /\ scraped = {} /\ visited = << >>
    /\ fetchFailed = {} /\ updated = {} /\ errored = {}

NoMatch == [ok |-> FALSE, groups |-> << >>]

\* A pattern is a sequence of atoms: "d+" is (\d+), "s*" is \s*, any other
\* atom is that character.  The match of the pattern at the start of t; no
\* atom that follows \d+ or \s* in the patterns used can match a digit or
\* white space, so the greedy match is the only one.
RECURSIVE MatchHere(_, _)
MatchHere(pat, t) ==
    IF pat = << >> THEN [ok |-> TRUE, groups |-> << >>]
    ELSE IF Head(pat) = "d+"
         THEN LET ds == LeadingDigits(t)
                  r  == MatchHere(Tail(pat), SubSeq(t, Len(ds) + 1, Len(t)))
              IN  IF ds # << >> /\ r.ok
                  THEN [ok |-> TRUE, groups |-> << ds >> \o r.groups]
                  ELSE NoMatch
    ELSE IF Head(pat) = "s*"
         THEN MatchHere(Tail(pat), TrimLeft(t))
    ELSE IF t # << >> /\ Head(t) = Head(pat)
         THEN MatchHere(Tail(pat), Tail(t))
         ELSE NoMatch

\* String.prototype.match with an unanchored pattern: the leftmost match
RECURSIVE Search(_, _)
Search(pat, t) ==
    IF MatchHere(pat, t).ok THEN MatchHere(pat, t)
    ELSE IF t = << >> THEN NoMatch
    ELSE Search(pat, Tail(t))

\* text.includes(lit)
Includes(t, lit) == Search(lit, t).ok

HourMinPattern == << "d+", "s*", "JI", "KAN", "s*", "d+", "s*", "FUN" >>
MinPattern == << "d+", "s*", "FUN" >>
TransferPattern == << "NORI", "KAE", "s*", "d+", "s*", "KAI" >>
TimesPattern == << "d+", "s*", "KAI" >>
Walk == << "TO", "HO" >>

\* an element of the route section: its class and its text
Elem(cls, t) == [cls |-> cls, text |-> t]

\* [class*="sub"]: does the class attribute contain sub
ClassContains(cls, sub) ==
    << cls, sub >> \in { << "time", "time" >>, << "summary-time", "time" >>,
                         << "fare", "fare" >>, << "total-cost", "cost" >>,
                         << "transfer", "transfer" >>,
                         << "distance", "distance" >> }

\* routeSection.find(sel).first().text(), "" for an empty selection
FirstText(found) == IF found = << >> THEN << >> ELSE found[1].text

\* routeSection.find(sel).text(): the texts of all the elements matched
AllText(found) == Concat([k \in 1..Len(found) |-> found[k].text])

\* .time, else [class*="time"]
TimeText(sec) ==
    IF SelectSeq(sec.elems, LAMBDA e : e.cls = "time") # << >>
    THEN Trim(FirstText(SelectSeq(sec.elems, LAMBDA e : e.cls = "time")))
    ELSE Trim(FirstText(SelectSeq(sec.elems, LAMBDA e : ClassContains(e.cls, "time"))))

\* .fare, else [class*="fare"], else [class*="cost"]
FareText(sec) ==
    IF SelectSeq(sec.elems, LAMBDA e : e.cls = "fare") # << >>
    THEN Trim(FirstText(SelectSeq(sec.elems, LAMBDA e : e.cls = "fare")))
    ELSE IF SelectSeq(sec.elems, LAMBDA e : ClassContains(e.cls, "fare")) # << >>
    THEN Trim(FirstText(SelectSeq(sec.elems, LAMBDA e : ClassContains(e.cls, "fare"))))
    ELSE Trim(FirstText(SelectSeq(sec.elems, LAMBDA e : ClassContains(e.cls, "cost"))))

\* .transfer, else [class*="transfer"]
TransferText(sec) ==
    IF SelectSeq(sec.elems, LAMBDA e : e.cls = "transfer") # << >>
    THEN Trim(FirstText(SelectSeq(sec.elems, LAMBDA e : e.cls = "transfer")))
    ELSE Trim(FirstText(SelectSeq(sec.elems, LAMBDA e : ClassContains(e.cls, "transfer"))))

\* [class*="distance"]
DistanceText(sec) ==
    Trim(AllText(SelectSeq(sec.elems, LAMBDA e : ClassContains(e.cls, "distance"))))

\* totalTime: hours and minutes, else minutes, else the initial 0
TotalTimeOf(timeText) ==
    LET hourMinMatch == Search(HourMinPattern, timeText)
        minMatch     == Search(MinPattern, timeText)
    IN  IF hourMinMatch.ok
        THEN DecimalValue(hourMinMatch.groups[1]) * 60
                 + DecimalValue(hourMinMatch.groups[2])
        ELSE IF minMatch.ok THEN DecimalValue(minMatch.groups[1])
        ELSE 0

RECURSIVE FromFirstDigit(_)
FromFirstDigit(t) ==
    IF t = << >> \/ Head(t) \in Digits THEN t ELSE FromFirstDigit(Tail(t))

\* (?:,\d{3})* at the start of t, the commas removed
RECURSIVE ThousandsGroups(_)
ThousandsGroups(t) ==
    IF Len(t) >= 4 /\ t[1] = "," /\ t[2] \in Digits /\ t[3] \in Digits
           /\ t[4] \in Digits
    THEN SubSeq(t, 2, 4) \o ThousandsGroups(SubSeq(t, 5, Len(t)))
    ELSE << >>

\* group 1 of /(\d{1,3}(?:,\d{3})*)/ with the commas removed; << >> for no match
FareMatch(fareText) ==
    LET u  == FromFirstDigit(fareText)
        ds == LeadingDigits(u)
        h  == SubSeq(ds, 1, IF Len(ds) > 3 THEN 3 ELSE Len(ds))
    IN  IF u = << >> THEN << >>
        ELSE h \o ThousandsGroups(SubSeq(u, Len(h) + 1, Len(u)))

\* totalCost
TotalCostOf(fareText) ==
    IF FareMatch(fareText) = << >> THEN 0 ELSE DecimalValue(FareMatch(fareText))

\* the list items inside an element whose class contains "route" that are
\* not on foot and not empty
TrainSections(sec) ==
    SelectSeq(sec.items, LAMBDA it :
        it.underRoute /\ ~Includes(it.text, Walk) /\ Len(it.text) > 0)

\* group 1 of the transfer pattern, else of the shorter one
TransferMatch(transferText) ==
    IF Search(TransferPattern, transferText).ok
    THEN Search(TransferPattern, transferText)
    ELSE Search(TimesPattern, transferText)

\* transferCount
TransferCountOf(sec) ==
    IF TransferMatch(TransferText(sec)).ok
    THEN DecimalValue(TransferMatch(TransferText(sec)).groups[1])
    ELSE IF Len(TrainSections(sec)) > 1 THEN Len(TrainSections(sec)) - 1
    ELSE 0

\* /(\d+(?:\.\d+)?)\s*km/: the leftmost match, the fraction taken when it
\* leads to a match
RECURSIVE DistanceMatch(_)
DistanceMatch(t) ==
    IF MatchHere(<< "d+", ".", "d+", "s*", "k", "m" >>, t).ok
    THEN MatchHere(<< "d+", ".", "d+", "s*", "k", "m" >>, t)
    ELSE IF MatchHere(<< "d+", "s*", "k", "m" >>, t).ok
    THEN [ok |-> TRUE,
          groups |-> MatchHere(<< "d+", "s*", "k", "m" >>, t).groups \o << << >> >>]
    ELSE IF t = << >> THEN NoMatch
    ELSE DistanceMatch(Tail(t))

\* distance: parseFloat(km) * 1000 to the metre
DistanceOf(distanceText) ==
    LET distanceMatch == DistanceMatch(distanceText)
        Thousandths(frac) == DecimalValue(SubSeq(frac \o << "0", "0", "0" >>, 1, 3))
    IN  IF distanceMatch.ok
        THEN DecimalValue(distanceMatch.groups[1]) * 1000
                 + Thousandths(distanceMatch.groups[2])
        ELSE 0

\* text.split(/\s+/)[0] of a trimmed text
RECURSIVE FirstWord(_)
FirstWord(t) ==
    IF t = << >> \/ IsSpace(Head(t)) THEN << >>
    ELSE << Head(t) >> \o FirstWord(Tail(t))

StepTime(text) ==
    IF Search(MinPattern, text).ok
    THEN DecimalValue(Search(MinPattern, text).groups[1])
    ELSE 0

\* the callback of routeList.each: the steps one list item adds
RouteStep(it) ==
    LET text == Trim(it.text)
        lineName == IF Trim(it.line) = << >>
                    THEN (IF FirstWord(text) = << >> THEN << "a" >> ELSE FirstWord(text))
                    ELSE Trim(it.line)
    IN  IF Includes(text, Walk)
        THEN << [line |-> Walk, from |-> << >>, to |-> << >>,
                 time |-> StepTime(text), type |-> "walk"] >>
        ELSE IF Len(text) > 0 /\ Len(lineName) > 0
        THEN << [line |-> lineName,
                 from |-> IF it.stations = << >> THEN << >> ELSE Trim(it.stations[1]),
                 to |-> IF it.stations = << >> THEN << >>
                        ELSE Trim(it.stations[Len(it.stations)]),
                 time |-> StepTime(text), type |-> "train"] >>
        ELSE << >>

\* route after the each loop over routeSection.find('li, ...')
RouteList(sec) == Concat([k \in 1..Len(sec.items) |-> RouteStep(sec.items[k])])

\* the step pushed when the loop extracted none
FallbackStep(rq, time) ==
    [line |-> << "a" >>, from |-> rq.from, to |-> rq.to, time |-> time,
     type |-> "train"]

WithFallback_None(r, rq, time) == r

WithFallback(r, rq, time) ==
    IF Len(r) = 0 THEN << FallbackStep(rq, time) >> ELSE r

\* a list item: its text, the text of its elements whose class contains
\* "line", the texts of those whose class contains "station", and whether it
\* lies inside an element whose class contains "route"
Item(t, line, sts, underRoute) ==
    [text |-> t, line |-> line, stations |-> sts, underRoute |-> underRoute]

TimeChoices ==
    { << >>,
      << Elem("time", << "1", "JI", "KAN", "5", "FUN" >>) >>,
      << Elem("summary-time", << "4", "5", "FUN" >>),
         Elem("time", << " ", "7", " ", "FUN" >>) >>,
      << Elem("summary-time", << "4", "5", "FUN" >>) >>,
      << Elem("time", << "a" >>) >> }

FareChoices ==
    { << >>,
      << Elem("fare", << "1", ",", "2", "3", "4", "a" >>) >>,
      << Elem("total-cost", << "a", "1", "2", "3", "4", "5" >>) >>,
      << Elem("fare", << "a" >>) >> }

TransferChoices ==
    { << >>,
      << Elem("transfer", << "NORI", "KAE", "2", "KAI" >>) >>,
      << Elem("transfer", << "1", " ", "KAI" >>) >>,
      << Elem("transfer", << "a" >>) >> }

DistanceChoices ==
    { << >>,
      << Elem("distance", << "1", ".", "5", "k", "m" >>) >>,
      << Elem("distance", << "a" >>) >> }

\* the lists of items of a section: none, a blank one, a walk, two train
\* steps with or without a walk between them, inside or outside a route element
ItemChoices ==
    LET TrainA(underRoute) ==
            Item(<< "a", " ", "1", "2", "FUN" >>, << >>,
                 << << "a" >>, << "a", "a" >> >>, underRoute)
        TrainB(underRoute) ==
            Item(<< "a", "a", "3", "FUN" >>, << "a", "a" >>, << >>, underRoute)
        OnFoot == Item(<< "TO", "HO", "5", "FUN" >>, << >>, << >>, TRUE)
        Blank  == Item(<< " " >>, << >>, << >>, TRUE)
    IN  { << >>,
          << Blank >>,
          << OnFoot >>,
          << TrainA(TRUE), TrainB(TRUE) >>,
          << TrainA(TRUE), OnFoot, TrainB(TRUE) >>,
          << TrainA(FALSE), TrainB(FALSE) >> }

\* the route sections a result page may hold
Sections ==
    { [elems |-> t \o f \o x \o d, items |-> its] :
        t \in TimeChoices, f \in FareChoices, x \in TransferChoices,
        d \in DistanceChoices, its \in ItemChoices }

\* what the fetch of the result page gives: a failure of fetch, a status
\* that is not ok, a page without a route section, a page with one
RoutePages ==
    { [kind |-> "neterr"], [kind |-> "notok"], [kind |-> "nosection"] }
        \cup { [kind |-> "section", section |-> sec] : sec \in Sections }

Requests ==
    { [method |-> m, from |-> f, to |-> t] :
        m \in {"POST", "GET"}, f \in { << >>, << "a" >> },
        t \in { << >>, << "a", "a" >> } }

RouteInit ==
    /\ req \in Requests
    /\ page = [kind |-> "none"]
    /\ totalTime = 0 /\ totalCost = 0 /\ transferCount = 0 /\ distance = 0
    /\ route = << >>
    /\ pc = "r_start"
    /\ res = << >>
    /\ BackIdle
    /\ StationPageIdle
    /\ HomeIdle

RequestValid == req.method = "POST" /\ req.from # << >> /\ req.to # << >>

\* the two early returns: 405 for a method other than POST, 400 when from
\* or to is missing
RouteReject ==
    /\ pc = "r_start"
    /\ ~RequestValid
    /\ res' = Append(res, [status |-> IF req.method # "POST" THEN 405 ELSE 400,
                           body |-> [error |-> "rejected"]])
    /\ pc' = "r_done"
    /\ UNCHANGED << routeVars, stationPageVars, homeVars, backVars >>

\* fetch, response.ok, cheerio.load and the search for the route section
RouteFetch ==
    /\ pc = "r_start"
    /\ RequestValid
    /\ \E pg \in RoutePages :
         /\ page' = pg
         /\ IF pg.kind \in {"neterr", "notok"}
            THEN /\ res' = Append(res, [status |-> 500, body |-> [error |-> "failed"]])
                 /\ pc' = "r_done"
            ELSE IF pg.kind = "nosection"
            THEN /\ res' = Append(res, [status |-> 400,
                                        body |-> [error |-> "not found"]])
                 /\ pc' = "r_done"
            ELSE /\ pc' = "r_totals"
                 /\ UNCHANGED res
    /\ UNCHANGED << req, totalTime, totalCost, transferCount, distance, route,
                    stationPageVars, homeVars, backVars >>

\* totalTime, totalCost, transferCount and distance
RouteTotals ==
    /\ pc = "r_totals"
    /\ totalTime' = TotalTimeOf(TimeText(page.section))
    /\ totalCost' = TotalCostOf(FareText(page.section))
    /\ transferCount' = TransferCountOf(page.section)
    /\ distance' = DistanceOf(DistanceText(page.section))
    /\ pc' = "r_steps"
    /\ UNCHANGED << req, page, route, res, stationPageVars, homeVars, backVars >>

\* the each loop over the list items and the fallback step
RouteSteps ==
    /\ pc = "r_steps"
    /\ route' = WithFallback(RouteList(page.section), req, totalTime)
    /\ pc' = "r_respond"
    /\ UNCHANGED << req, page, totalTime, totalCost, transferCount, distance, res,
                    stationPageVars, homeVars, backVars >>

\* res.status(200).json
RouteRespond ==
    /\ pc = "r_respond"
    /\ res' = Append(res, [status |-> 200,
                           body |-> [totalTime |-> totalTime, totalCost |-> totalCost,
                                     transferCount |-> transferCount,
                                     distance |-> distance, route |-> route]])
    /\ pc' = "r_done"
    /\ UNCHANGED << routeVars, stationPageVars, homeVars, backVars >>

RouteNext ==
    \/ RouteReject
    \/ RouteFetch
    \/ RouteTotals
    \/ RouteSteps
    \/ RouteRespond

SpecRoute == RouteInit /\ [][RouteNext]_vars

-----------------------------------------------------------------------------
(* The station page (StationPage of src/pages/api/update-timetable.ts):    *)
(* its two pieces of state, the handlers that set them and the render that *)
(* reads the Timetable they select.                                        *)

\* the station prop when getStaticProps found no station
NoStation == [id |-> "none"]

\* the Timetable sets an update can store: one Timetable per Direction that
\* gave departures, in the order of the configuration, never none
PageSets(id) ==
    LET PageTimetable(d) ==
            [direction |-> STATION_CONFIG[id].directions[d].name,
             departures |-> << [hour |-> 6, minute |-> d] >>]
    IN  { << PageTimetable(1) >>, << PageTimetable(2) >>,
          << PageTimetable(1), PageTimetable(2) >> }

PageStations ==
    UNION { { [StationRecord(id) EXCEPT !.timetables = [weekdays |-> w, holidays |-> h]] :
                w \in PageSets(id), h \in PageSets(id) } :
            id \in {"hankai_abikomichi", "nankai_suminoe"} }

StationPageInit ==
    /\ pageStation \in PageStations \cup {NoStation}
    /\ selectedTab = 0
    /\ scheduleType = "weekdays"
    /\ pc = "p_first"
    /\ res = << >>
    /\ BackIdle
    /\ RouteIdle
    /\ HomeIdle

\* const currentTimetables = station.timetables[scheduleType]
currentTimetables ==
    IF scheduleType = "weekdays" THEN pageStation.timetables.weekdays
    ELSE pageStation.timetables.holidays

\* currentTimetables[selectedTab] is undefined
currentTimetableUndefined == selectedTab >= Len(currentTimetables)

\* One render of the component.  Without a station it returns the not-found
\* text; otherwise findNextTrain reads currentTimetable.departures, a
\* TypeError when currentTimetable is undefined.  The first render is
\* followed by the effect that sets scheduleType from the day of the week.
PageRender ==
    /\ pc \in {"p_first", "p_render"}
    /\ pc' = IF pageStation = NoStation THEN "p_notfound"
             ELSE IF currentTimetableUndefined THEN "p_crashed"
             ELSE IF pc = "p_first" THEN "p_mounting"
             ELSE "p_shown"
    /\ UNCHANGED << stationPageVars, routeVars, homeVars, res, backVars >>

\* useEffect(..., []): setScheduleType(isWeekend ? 'holidays' : 'weekdays')
PageMount ==
    /\ pc = "p_mounting"
    /\ \E isWeekend \in BOOLEAN :
         scheduleType' = IF isWeekend THEN "holidays" ELSE "weekdays"
    /\ pc' = "p_render"
    /\ UNCHANGED << pageStation, selectedTab, routeVars, homeVars, res, backVars >>

\* handleTabChange: a click on one of the tabs rendered, one per Timetable
\* of currentTimetables
handleTabChange ==
    /\ pc = "p_shown"
    /\ \E newValue \in 0..(Len(currentTimetables) - 1) :
         selectedTab' = newValue
    /\ pc' = "p_render"
    /\ UNCHANGED << pageStation, scheduleType, routeVars, homeVars, res, backVars >>

\* handleScheduleTypeChange: the toggle gives the other type, or null for a
\* click on the selected one
handleScheduleTypeChange ==
    /\ pc = "p_shown"
    /\ \E newType \in {"weekdays", "holidays", "null"} :
         IF newType # "null"
         THEN /\ scheduleType' = newType
              /\ pc' = "p_render"
         ELSE UNCHANGED << scheduleType, pc >>
    /\ UNCHANGED << pageStation, selectedTab, routeVars, homeVars, res, backVars >>

StationPageNext ==
    \/ PageRender
    \/ PageMount
    \/ handleTabChange
    \/ handleScheduleTypeChange

SpecStationPage == StationPageInit /\ [][StationPageNext]_vars

-----------------------------------------------------------------------------
(* The index page (Home of src/pages/index.tsx): the update button, the    *)
(* request it sends to /api/update-timetable and the snackbar.             *)

MaxClicks == 4

\* what the awaited fetch and response.json() give: a 200 with or without a
\* message, a status that is not ok, a rejected fetch, a body that is not JSON
UpdateOutcomes == {"ok_message", "ok_nomessage", "not_ok", "neterr", "bad_json"}

HomeInit ==
    /\ HomeIdle
    /\ pc = "home"
    /\ res = << >>
    /\ BackIdle
    /\ RouteIdle
    /\ StationPageIdle

\* <Button disabled={updating}>
ButtonEnabled_Always == TRUE

ButtonEnabled == ~updating

\* a click on the update button: handleUpdateData up to the await of fetch
handleUpdateData ==
    /\ ButtonEnabled
    /\ clicks < MaxClicks
    /\ clicks' = clicks + 1
    /\ updating' = TRUE
    /\ pending' = pending + 1
    /\ UNCHANGED << snackbar, reloadTimers, pc, res, routeVars, stationPageVars,
                    backVars >>

\* the rest of handleUpdateData once the fetch has settled: the success
\* path with its reload timer, or the catch, and the finally
UpdateSettled ==
    /\ pending > 0
    /\ \E o \in UpdateOutcomes :
         IF o \in {"ok_message", "ok_nomessage"}
         THEN /\ snackbar' = [open |-> TRUE,
                              message |-> IF o = "ok_message" THEN "result.message"
                                          ELSE "updated",
                              severity |-> "success"]
              /\ reloadTimers' = reloadTimers + 1
         ELSE /\ snackbar' = [open |-> TRUE,
                              message |-> IF o = "not_ok" THEN "update failed"
                                          ELSE "error.message",
                              severity |-> "error"]
              /\ UNCHANGED reloadTimers
    /\ updating' = FALSE
    /\ pending' = pending - 1
    /\ UNCHANGED << clicks, pc, res, routeVars, stationPageVars, backVars >>

\* handleCloseSnackbar
handleCloseSnackbar ==
    /\ snackbar.open
    /\ snackbar' = [snackbar EXCEPT !.open = FALSE]
    /\ UNCHANGED << updating, pending, reloadTimers, clicks, pc, res, routeVars,
                    stationPageVars, backVars >>

\* the setTimeout callback: window.location.reload() loads the page anew,
\* its state as useState initialises it; the document that is unloaded takes
\* its timers and the requests it still awaits with it
Reload ==
    /\ reloadTimers > 0
    /\ updating' = FALSE
    /\ snackbar' = [open |-> FALSE, message |-> "", severity |-> "success"]
    /\ pending' = 0
    /\ reloadTimers' = 0
    /\ UNCHANGED << clicks, pc, res, routeVars, stationPageVars, backVars >>

HomeNext ==
    \/ handleUpdateData
    \/ UpdateSettled
    \/ handleCloseSnackbar
    \/ Reload

SpecHome == HomeInit /\ [][HomeNext]_vars

-----------------------------------------------------------------------------
(* The claims.                                                             *)

\* the list 1, 2, ..., n
UpTo(n) == [i \in 1..n |-> i]

Mixed(r) == (Len(r.weekdays) = 0) # (Len(r.holidays) = 0)

\* C1: commit-all-or-nothing.  A station for which one of the two scrapes
\* returned no Timetable and the other one or more is not assigned: its record
\* in memory, and in the store once written, is the record read at the start,
\* and it is not reported as updated.
C1_CommitAllOrNothing ==
    \A r \in scraped :
        Mixed(r) =>
            /\ stations[r.station] = store0[r.station]
            /\ r.station \notin updated
            /\ pc = "written" => store[r.station] = store0[r.station]

\* C1 witness: the cycle has written the store after a station whose weekday
\* scrape returned Timetables and whose holiday scrape returned none.
C1_Witness ==
    /\ pc = "written"
    /\ \E r \in scraped : Len(r.weekdays) > 0 /\ Len(r.holidays) = 0
    /\ \E r \in scraped : Len(r.weekdays) = 0 /\ Len(r.holidays) > 0

MinuteOfDay(d) == d.hour * 60 + d.minute

\* C2: every sequence scrapeYahooTimetable returns is non-decreasing in
\* hour*60+minute.
C2_SortedByMinuteOfDay ==
    pc = "extracted" =>
        \A i \in 1..(Len(outcome.value) - 1) :
            MinuteOfDay(outcome.value[i]) <= MinuteOfDay(outcome.value[i + 1])

\* C3: resilience.  A fetch that fails never ends the cycle: the cycle ends in
\* its catch only from the read or the write of the store, the stations are
\* visited in the order of the list, and once the loop is over every station
\* has been visited.
C3_Resilience ==
    /\ pc = "error" => si > Len(stations)
    /\ visited = UpTo(Len(visited))
    /\ Len(visited) \in {si - 1, si}
    /\ (pc \in {"loop", "written"} /\ si > Len(stations)) =>
           visited = UpTo(Len(store0))

\* C3 witness: the cycle is over, a fetch failed while the first station was
\* being updated, and the second station was updated and counted.
C3_Witness ==
    /\ pc = "written"
    /\ 1 \in fetchFailed
    /\ 2 \in updated
    /\ updatedCount >= 1

FailedResponse(resp) == resp.kind \in {"neterr", "bodyerr"} \/ ~resp.ok

\* C4: scrapeYahooTimetable never throws to its caller, and returns the empty
\* sequence on a network failure, a response that is not ok, or an exception
\* while the body is read.
C4_NeverThrows ==
    /\ pc # "threw"
    /\ pc = "extracted" =>
          /\ ~outcome.threw
          /\ FailedResponse(response) => outcome.value = << >>

\* C4 witness: the extractor has returned for a response that is not ok and
\* whose body is a page with departures in it.
C4_Witness ==
    /\ pc = "extracted"
    /\ response.kind = "http"
    /\ ~response.ok
    /\ Accumulate(response.doc) # << >>

FixtureRow ==
    << Cell("td", "col-hour", << "7" >>, << >>),
       Cell("td", "", << >>,
            << Li(<< >>, << Span("time", << "0", "5" >>) >>),
               Li(<< >>, << Span("time", << "2", "3" >>) >>) >>) >>

\* C5: for the document with the one fixture row (hour cell 7, two list items
\* each holding a span of class time, 05 and 23) the extractor yields exactly
\* 7:05 and 7:23, each once.
C5_FixtureExample ==
    (pc = "extracted" /\ response.kind = "http" /\ response.ok
       /\ TimetableRows(response.doc) = << FixtureRow >>) =>
        outcome.value = << [hour |-> 7, minute |-> 5], [hour |-> 7, minute |-> 23] >>

\* the elements of cell c that pattern p matches: 1 is '.col-min li', 2 is
\* 'td li', 3 is 'td span'
PatternMatches(p, c, t) ==
    \/ p = 1 /\ t = "li" /\ c.cls = "col-min"
    \/ p = 2 /\ t = "li" /\ c.tag = "td"
    \/ p = 3 /\ t = "span" /\ c.tag = "td"

PatternItems(p, row) ==
    Concat([k \in 1..Len(row) |->
        Concat([i \in 1..Len(row[k].kids) |->
            (IF PatternMatches(p, row[k], row[k].kids[i].tag)
             THEN << ItemElem(row[k].kids[i]) >> ELSE << >>)
            \o Concat([j \in 1..Len(row[k].kids[i].kids) |->
                  IF PatternMatches(p, row[k], row[k].kids[i].kids[j].tag)
                  THEN << SubElem(row[k].kids[i].kids[j]) >> ELSE << >>])])])

\* the elements of the first pattern that matches anything
FirstPatternItems(row) ==
    IF PatternItems(1, row) # << >> THEN PatternItems(1, row)
    ELSE IF PatternItems(2, row) # << >> THEN PatternItems(2, row)
    ELSE PatternItems(3, row)

FirstPatternDepartures(rows) ==
    Concat([k \in 1..Len(rows) |->
        IF isNaN(RowHour(rows[k])) THEN << >>
        ELSE Concat([j \in 1..Len(FirstPatternItems(rows[k])) |->
                 MinuteOf(RowHour(rows[k])[1], FirstPatternItems(rows[k])[j])])])

\* C6: in a row with a valid hour only the elements of the first pattern that
\* matches anything are used: the Departures are those of the first pattern's
\* elements, and an element only a later pattern matches adds none.
C6_FirstPatternOnly ==
    (pc = "extracted" /\ response.kind = "http" /\ response.ok) =>
        outcome.value = SortDepartures(FirstPatternDepartures(timetableRows))

\* C7: every Departure the extractor emits has 0 <= hour <= 29 and
\* 0 <= minute <= 59.
C7_DepartureInRange ==
    pc = "extracted" =>
        \A i \in 1..Len(outcome.value) :
            /\ 0 <= outcome.value[i].hour /\ outcome.value[i].hour <= 29
            /\ 0 <= outcome.value[i].minute /\ outcome.value[i].minute <= 59

\* the fetches of station i gave: direction A 3 weekday and 0 holiday
\* departures, direction B 2 weekday and 4 holiday departures
ExampleYields(i) ==
    { [station |-> i, dir |-> 1, kind |-> 1, n |-> 3],
      [station |-> i, dir |-> 1, kind |-> 4, n |-> 0],
      [station |-> i, dir |-> 2, kind |-> 1, n |-> 2],
      [station |-> i, dir |-> 2, kind |-> 4, n |-> 4] }

ExampleDone(i) ==
    /\ ExampleYields(i) \subseteq yields
    /\ \E r \in scraped : r.station = i

DirectionName(i, d) == STATION_CONFIG[store0[i].id].directions[d].name

\* C8: the example of the commit policy.  When direction A yields 3 weekday
\* and 0 holiday departures and direction B 2 weekday and 4 holiday ones, the
\* station's record holds two weekday Timetables, A then B, and exactly one
\* holiday Timetable, B's; the record is overwritten, and the commit step
\* counts the station as updated.
C8_Stored ==
    \A i \in 1..Len(stations) :
        ExampleDone(i) =>
            LET t == stations[i].timetables
            IN  /\ Len(t.weekdays) = 2
                /\ t.weekdays[1].direction = DirectionName(i, 1)
                /\ Len(t.weekdays[1].departures) = 3
                /\ t.weekdays[2].direction = DirectionName(i, 2)
                /\ Len(t.weekdays[2].departures) = 2
                /\ Len(t.holidays) = 1
                /\ t.holidays[1].direction = DirectionName(i, 2)
                /\ Len(t.holidays[1].departures) = 4
                /\ i \in updated
                /\ pc = "written" => store[i] = stations[i]

C8_Counted ==
    (pc = "commit" /\ ExampleYields(si) \subseteq yields) =>
        updatedCount' = updatedCount + 1

C8_CommitExample == [] C8_Stored /\ [][C8_Counted]_vars

\* C8 witness: the store has been written after a station with the yields of
\* the example.
C8_Witness ==
    /\ pc = "written"
    /\ \E i \in 1..Len(stations) : ExampleDone(i)

AllTimetables(t) ==
    { t.weekdays[k] : k \in 1..Len(t.weekdays) }
        \cup { t.holidays[k] : k \in 1..Len(t.holidays) }

\* a step in which a fetch of scrapeTimetablesForStation resolves
FetchResolves == pc = "await" /\ pc' = "scrape"

C9_Iff ==
    FetchResolves =>
        /\ Len(outcome'.value) > 0 =>
              timetables' = Append(timetables,
                                [direction |-> Config.directions[di].name,
                                 departures |-> outcome'.value])
        /\ Len(outcome'.value) = 0 => timetables' = timetables

C9_NoEmptyStored ==
    \A i \in updated :
        /\ \A tt \in AllTimetables(stations[i].timetables) : Len(tt.departures) > 0
        /\ pc = "written" =>
              \A tt \in AllTimetables(store[i].timetables) : Len(tt.departures) > 0

\* C9: a Direction adds a Timetable to the set being built if and only if its
\* parsed sequence is non-empty, and no Timetable with an empty departures
\* list is in the record of an updated station, in memory or in the store.
C9_NonEmptyOnly == [] C9_NoEmptyStored /\ [][C9_Iff]_vars

\* C9 witness: the store has been written with an updated station one of
\* whose directions yielded nothing for the holidays.
C9_Witness ==
    /\ pc = "written"
    /\ \E i \in updated :
          /\ \E y \in yields : y.station = i /\ y.kind = 4 /\ y.n = 0
          /\ Len(store[i].timetables.holidays) = 1

\* text that does not start, after white space, with an integer
NonNumeric(t) ==
    LET u == TrimLeft(t)
    IN  \/ u = << >>
        \/ /\ Head(u) \notin Digits
           /\ ~(Head(u) \in {"-", "+"} /\ Len(u) >= 2 /\ u[2] \in Digits)

FirstCellNonNumeric(row) == row # << >> /\ NonNumeric(CellText(row[1]))

HourCellsNonNumeric(row) ==
    NonNumeric(Concat([k \in 1..Len(row) |->
        IF row[k].cls = "col-hour" THEN CellText(row[k]) ELSE << >>]))

\* a step of the each loop over the rows
RowStep == pc = "rows" /\ ri <= Len(timetableRows)

\* C10 as stated: a row whose first cell is non-numeric text adds no
\* Departure and raises nothing, and the loop goes on to the next row.
C10_SkipFirstCell ==
    [][ (RowStep /\ FirstCellNonNumeric(timetableRows[ri])) =>
            (departures' = departures /\ pc' = "rows" /\ ri' = ri + 1) ]_vars

\* C10 as amended: a row whose first cell is non-numeric text and whose
\* cells of class col-hour hold no text starting with an integer adds no
\* Departure and raises nothing, and the loop goes on to the next row.
C10_SkipUnparsable ==
    [][ (RowStep /\ FirstCellNonNumeric(timetableRows[ri])
           /\ HourCellsNonNumeric(timetableRows[ri])) =>
            (departures' = departures /\ pc' = "rows" /\ ri' = ri + 1) ]_vars

\* C10 witness: the extractor has returned Departures for a document of two
\* rows whose first row has a non-numeric first cell and no hour cell.
C10_Witness ==
    /\ pc = "extracted"
    /\ Len(timetableRows) = 2
    /\ FirstCellNonNumeric(timetableRows[1])
    /\ HourCellsNonNumeric(timetableRows[1])
    /\ MinItems(timetableRows[1]) # << >>
    /\ outcome.value # << >>

AllPrimary(doc) == \A k \in 1..Len(doc) : doc[k].cls = "tbl-dia"

StripClasses(doc) == [k \in 1..Len(doc) |-> Table("", doc[k].rows)]

PrimaryRows(doc) ==
    Concat([k \in 1..Len(doc) |->
        IF doc[k].cls = "tbl-dia" THEN doc[k].rows ELSE << >>])

AllRows(doc) == Concat([k \in 1..Len(doc) |-> doc[k].rows])

ExtractedPage == pc = "extracted" /\ response.kind = "http" /\ response.ok

\* C11: fallback correctness.  A document whose tables all carry .tbl-dia
\* yields the Departures that the same document without the class yields
\* through the generic selector, and the rows walked are those of the
\* .tbl-dia tables whenever one of them has a row, all table rows otherwise.
C11_FallbackSame ==
    ExtractedPage =>
        /\ AllPrimary(response.doc) =>
              outcome.value =
                  scrapeYahooTimetable(
                      HttpResponse(TRUE, StripClasses(response.doc))).value
        /\ timetableRows = IF Len(PrimaryRows(response.doc)) > 0
                           THEN PrimaryRows(response.doc)
                           ELSE AllRows(response.doc)

\* C11 witness: two .tbl-dia tables have been extracted to two or more
\* Departures.
C11_Witness ==
    /\ ExtractedPage
    /\ Len(response.doc) = 2
    /\ AllPrimary(response.doc)
    /\ Len(outcome.value) >= 2

StorageFailed ==
    Len(ioLog) > 0 /\ ioLog[Len(ioLog)] \in {"readfail", "writefail"}

C12_RecordKept ==
    /\ \A i \in errored :
          /\ stations[i] = store0[i]
          /\ i \notin updated
          /\ pc = "written" => store[i] = store0[i]
    /\ pc = "error" => StorageFailed

C12_CycleContinues ==
    errored' # errored =>
        /\ errored' = errored \cup {si}
        /\ updatedCount' = updatedCount
        /\ stations' = stations
        /\ si' = si + 1
        /\ pc' = "loop"

\* C12: a station whose update raises an exception is skipped.  Its record
\* stays the one read at the start, in memory and in the written store, the
\* count is not incremented by it, and the loop goes on to the next station
\* and then to the write: the cycle ends in failure only through the store.
C12_ExceptionSkipsStation == [] C12_RecordKept /\ [][C12_CycleContinues]_vars

\* C12 witness: the store has been written after the first station's update
\* raised an exception and the second station was updated.
C12_Witness ==
    /\ pc = "written"
    /\ 1 \in errored
    /\ 2 \in updated
    /\ updatedCount = 1
    /\ store[1] = store0[1]

Answered(status) == pc = "h_done" /\ Len(res) = 1 /\ res[1].status = status

C13_Inv ==
    /\ "readfail" \in { ioLog[k] : k \in 1..Len(ioLog) } =>
          /\ ioLog = << "readfail" >>
          /\ store = store0
          /\ visited = << >>
    /\ StorageFailed =>
          /\ pc \in {"error", "h_done"}
          /\ method = "script" => pc = "error"
          /\ method # "script" =>
                /\ Answered(500)
                /\ res[1].body = ErrorBody
    /\ Answered(200) => ~StorageFailed

C13_Stops ==
    StorageFailed => UNCHANGED vars

\* C13: a failure reading or writing the store fails the whole cycle.  After
\* a failed read nothing else is attempted, no write in particular; after a
\* failed read or write the script is in its error exit and the handler has
\* answered 500 with an error body, never 200; nothing runs afterwards.
C13_StoreFailureFailsCycle == [] C13_Inv /\ [][C13_Stops]_vars

\* C13 witness: the handler has answered 500 after the write of the store
\* failed, one station having been updated in memory.
C13_Witness ==
    /\ Answered(500)
    /\ ioLog = << "read", "writefail" >>
    /\ updatedCount = 1
    /\ store = store0

LoopRunning ==
    \/ pc \in {"scrape", "await", "commit"}
    \/ pc \in {"loop", "h_loop"} /\ si <= Len(stations)

C14_Inv ==
    /\ ioLog \in { << >>, << "read" >>, << "readfail" >>,
                   << "read", "write" >>, << "read", "writefail" >> }
    /\ Len(visited) > 0 => ioLog[1] = "read"
    /\ LoopRunning => ioLog = << "read" >>
    /\ Len(ioLog) = 2 =>
          /\ visited = UpTo(Len(store0))
          /\ si = Len(stations) + 1

C14_Step ==
    /\ Len(ioLog') > Len(ioLog) /\ Len(ioLog) = 0 => visited = << >>
    /\ Len(ioLog') > Len(ioLog) /\ Len(ioLog) = 1 => si > Len(stations)
    /\ visited' # visited => ioLog' = << "read" >>

\* C14: the store is read exactly once, before any station is processed, and
\* written at most once, after the last station was processed; while the
\* stations are being updated the only access to the store so far is that
\* read, so that no write happens between station updates.
C14_ReadOnceWriteLast == [] C14_Inv /\ [][C14_Step]_vars

\* C14 witness: both stations of a store have been updated and the store
\* written, by one read followed by one write.
C14_Witness ==
    /\ pc = "written"
    /\ visited = << 1, 2 >>
    /\ updated = {1, 2}
    /\ ioLog = << "read", "write" >>

Overwritten == { i \in 1..Len(stations) : stations[i] # store0[i] }

\* C15: the count of updated stations equals the number of stations whose
\* timetables record the cycle overwrote, at every point of the script's
\* cycle and so at its end, and lies between 0 and the number of stations.
C15_CountIsOverwritten ==
    /\ updatedCount = Cardinality(Overwritten)
    /\ Overwritten = updated
    /\ 0 <= updatedCount
    /\ updatedCount <= Len(store0)

\* C15 witness: the script has written a store of two stations of which one
\* was updated and the other did not pass the commit policy.
C15_Witness ==
    /\ pc = "written"
    /\ Len(stations) = 2
    /\ updatedCount = 1
    /\ \E r \in scraped : Mixed(r)

C16_Inv ==
    /\ Len(res) <= 1
    /\ Len(res) = 1 <=> pc = "h_done"
    /\ pc # "h_done" => ENABLED ApiNext
    /\ pc = "h_done" =>
          /\ res[1].status \in {405, 200, 500}
          /\ res[1].status = 405 <=> method # "POST"
          /\ res[1].status = 405 =>
                /\ ioLog = << >>
                /\ store = store0
                /\ res[1].body = MethodNotAllowed
          /\ res[1].status = 200 =>
                /\ ioLog = << "read", "write" >>
                /\ store = stations
                /\ res[1].body.success
                /\ res[1].body.updatedStations = Cardinality(updated)
          /\ res[1].status = 500 =>
                /\ StorageFailed
                /\ res[1].body = ErrorBody

C16_Step == Len(res) = 1 => UNCHANGED vars

\* C16: the handler answers every request with exactly one response: 405 for
\* a method other than POST, the store neither read nor written; 200 with
\* success true and updatedStations, the number of stations the cycle
\* updated, only after the store was written; 500 otherwise.  A run that has
\* not answered can take a step, and one that has answered takes none.
C16_OneResponse == [] C16_Inv /\ [][C16_Step]_vars

\* C16 witness: a POST over a store of two stations has been answered 200
\* with updatedStations 1 after the write.
C16_Witness ==
    /\ Answered(200)
    /\ method = "POST"
    /\ Len(stations) = 2
    /\ res[1].body.updatedStations = 1
    /\ ioLog = << "read", "write" >>

\* C17: at most one fetch is in flight at any time: the script awaits the
\* response to one request before it issues the next, across directions,
\* day kinds and stations alike.
C17_OneFetchInFlight ==
    /\ Cardinality(inFlight) <= 1
    /\ pc = "await" <=> Cardinality(inFlight) = 1

\* C17 witness: the holiday fetch for the second direction of the second
\* station is in flight alone, all earlier fetches having resolved.
C17_Witness ==
    /\ pc = "await"
    /\ si = 2
    /\ kind = 4
    /\ di = 2
    /\ Cardinality(inFlight) = 1
    /\ Cardinality(yields) >= 3

DirectionsOf(ts) == { ts[k].direction : k \in 1..Len(ts) }

DeparturesOf(ts) ==
    UNION { { ts[k].departures[j] : j \in 1..Len(ts[k].departures) } :
            k \in 1..Len(ts) }

Replaced(rec, r) ==
    /\ rec.timetables = [weekdays |-> r.weekdays, holidays |-> r.holidays]
    /\ \A y \in yields :
          y.station = r.station /\ y.n = 0 =>
              STATION_CONFIG[rec.id].directions[y.dir].name \notin
                  DirectionsOf(IF y.kind = 1 THEN rec.timetables.weekdays
                               ELSE rec.timetables.holidays)

\* C18: an update replaces a station's timetables as a whole.  The record of
\* an updated station holds exactly the weekday and holiday sets scraped in
\* this cycle, in memory and in the written store: a Direction that yielded
\* nothing for a day kind is absent from that set even when the record read
\* at the start had it.
C18_WholesaleReplacement ==
    \A r \in scraped :
        r.station \in updated =>
            /\ Replaced(stations[r.station], r)
            /\ pc = "written" => Replaced(store[r.station], r)

\* C18 witness: the store has been written with an updated station whose
\* first direction, present in the holiday set read at the start, yielded
\* nothing for the holidays and is absent from the holiday set written, and
\* none of the departures read at the start is left.
C18_Witness ==
    /\ pc = "written"
    /\ \E i \in updated :
          /\ \E y \in yields : y.station = i /\ y.kind = 4 /\ y.dir = 1 /\ y.n = 0
          /\ OldDirection(store0[i].id) \in DirectionsOf(store0[i].timetables.holidays)
          /\ OldDirection(store0[i].id) \notin DirectionsOf(store[i].timetables.holidays)
          /\ DeparturesOf(store[i].timetables.holidays)
                 \cap DeparturesOf(store0[i].timetables.holidays) = {}

SameIdentity(a, b) ==
    /\ a.id = b.id
    /\ a.name = b.name
    /\ a.lineName = b.lineName
    /\ a.color = b.color

SameStations(new, old) ==
    /\ Len(new) = Len(old)
    /\ \A i \in 1..Len(old) : SameIdentity(new[i], old[i])

\* C19: the store holds the same stations in the same order as the store
\* read at the start, with id, name, lineName and color unchanged, at every
\* point of a cycle of the script or of the handler and so once written; so
\* does the list in memory from the read on.
C19_RosterPreserved ==
    /\ SameStations(store, store0)
    /\ "read" \in { ioLog[k] : k \in 1..Len(ioLog) } => SameStations(stations, store0)

\* C19 witness: a store of two stations has been written with the second
\* one updated and the first one not.
C19_Witness ==
    /\ pc = "written"
    /\ Len(store) = 2
    /\ updated = {2}
    /\ store # store0
    /\ store[1] = store0[1]

Finished == pc \in {"written", "error"}

C21_AllProcessed ==
    Finished /\ ioLog # << "readfail" >> => visited = UpTo(Len(store0))

\* C21: every cycle of the script terminates: it reaches the write step or
\* the cycle-level error exit, whatever fetches and stations fail, and, the
\* store once read, it gets there only after the loop has gone through every
\* station of the list.
C21_Terminates == <> Finished /\ [] C21_AllProcessed

\* C21 witness: the store has been written at the end of a cycle over two
\* stations in which a fetch failed and the update of a station raised an
\* exception.
C21_Witness ==
    /\ pc = "written"
    /\ visited = << 1, 2 >>
    /\ fetchFailed # {}
    /\ errored # {}

DirectionIndex(cfg, name) ==
    CHOOSE d \in 1..Len(cfg.directions) : cfg.directions[d].name = name

InConfigOrder(cfg, ts) ==
    /\ \A k \in 1..Len(ts) :
          \E d \in 1..Len(cfg.directions) : cfg.directions[d].name = ts[k].direction
    /\ \A k, l \in 1..Len(ts) :
          k < l => DirectionIndex(cfg, ts[k].direction)
                       < DirectionIndex(cfg, ts[l].direction)

C22_Building ==
    pc \in {"scrape", "await", "commit"} /\ HasDirections(stations[si].id) =>
        /\ InConfigOrder(Config, timetables)
        /\ InConfigOrder(Config, weekdaysTimetables)
        /\ InConfigOrder(Config, holidaysTimetables)

C22_Assigned ==
    \A i \in updated :
        /\ InConfigOrder(STATION_CONFIG[stations[i].id], stations[i].timetables.weekdays)
        /\ InConfigOrder(STATION_CONFIG[stations[i].id], stations[i].timetables.holidays)

\* C22: within one day-type set of a station every Timetable belongs to a
\* configured Direction, no Direction has two, and the Timetables stand in
\* the order of the Directions in the station's configuration; this holds of
\* the set being built, of the two sets returned and of the sets assigned.
C22_OnePerDirectionInOrder == C22_Building /\ C22_Assigned

\* C22 witness: the store has been written with a station whose weekday set
\* holds the Timetables of both configured Directions.
C22_Witness ==
    /\ pc = "written"
    /\ \E i \in updated :
          /\ Len(store[i].timetables.weekdays) = 2
          /\ store[i].timetables.weekdays[1].direction
                 = STATION_CONFIG[store[i].id].directions[1].name
          /\ store[i].timetables.weekdays[2].direction
                 = STATION_CONFIG[store[i].id].directions[2].name

ServedFor(cfg, k, tt) ==
    \E d \in 1..Len(cfg.directions) :
        /\ cfg.directions[d].name = tt.direction
        /\ \E resp \in Upstream(<< cfg.id, cfg.directions[d].gid, k >>) :
              tt.departures = scrapeYahooTimetable(resp).value

BuiltFrom(cfg, k, ts) == \A n \in 1..Len(ts) : ServedFor(cfg, k, ts[n])

C23_Locator ==
    pc = "await" =>
        /\ kind \in {1, 4}
        /\ inFlight = { << Config.id, Config.directions[di].gid, kind >> }

C23_Sets ==
    /\ pc \in {"scrape", "await", "commit"} /\ HasDirections(stations[si].id) =>
          /\ BuiltFrom(Config, kind, timetables)
          /\ BuiltFrom(Config, 1, weekdaysTimetables)
          /\ BuiltFrom(Config, 4, holidaysTimetables)
          /\ kind = 1 => holidaysTimetables = << >>
    /\ \A i \in updated :
          /\ BuiltFrom(STATION_CONFIG[stations[i].id], 1, stations[i].timetables.weekdays)
          /\ BuiltFrom(STATION_CONFIG[stations[i].id], 4, stations[i].timetables.holidays)

\* C23: the page fetched is located by the external station id, the
\* external direction id and the kind alone; every Timetable of a weekday
\* set holds what a page of kind 1 of its Direction gives, and every
\* Timetable of a holiday set what a page of kind 4 gives.
C23_KindMapping == C23_Locator /\ C23_Sets

\* C23 witness: the store has been written with a station whose second
\* Direction gave different departures on weekdays and on holidays, each
\* stored under its own day type.
C23_Witness ==
    /\ pc = "written"
    /\ \E i \in updated :
          /\ Len(store[i].timetables.weekdays) = 2
          /\ Len(store[i].timetables.holidays) = 2
          /\ store[i].timetables.weekdays[2].departures
                 # store[i].timetables.holidays[2].departures

YieldsOf(i, d, k) ==
    { y \in yields : y.station = i /\ y.dir = d /\ y.kind = k }

C24_Step ==
    /\ pc = "scrape" /\ pc' = "await" =>
          /\ YieldsOf(si, di, kind) = {}
          /\ inFlight' = { Url(Config, Config.directions[di], kind) }
    /\ FetchResolves =>
          /\ yields' = yields \cup { [station |-> si, dir |-> di, kind |-> kind,
                                      n |-> Len(outcome'.value)] }
          /\ di' = di + 1
          /\ FetchThrows(response') => outcome'.value = << >>

C24_Inv ==
    \A r \in scraped :
        \A d \in 1..Len(STATION_CONFIG[stations[r.station].id].directions) :
            \A k \in {1, 4} :
                /\ Cardinality(YieldsOf(r.station, d, k)) = 1
                /\ pc = "await" => ~(si = r.station)

\* C24: no retry.  A fetch is issued only for a (station, direction, day
\* type) for which none has resolved in this cycle; a fetch that resolves,
\* failed or not, is recorded once and the loop moves to the next direction,
\* a failed one with the empty result; a configured station that has been
\* through both scrapes has exactly one resolved fetch for each of its
\* directions and day types, and none is issued for it afterwards.
C24_NoRetry == [] C24_Inv /\ [][C24_Step]_vars

\* C24 witness: the store has been written after a station had one of its
\* four fetches fail and the four were each made once.
C24_Witness ==
    /\ pc = "written"
    /\ \E r \in scraped :
          /\ r.station \in fetchFailed
          /\ Cardinality({ y \in yields : y.station = r.station }) = 4
          /\ \E y \in yields : y.station = r.station /\ y.n = 0

HourCells(row) == SelectSeq(row, LAMBDA c : c.cls = "col-hour")

\* the integer a text starts with, white space aside; NaN when it has none
LeadingInteger(t) ==
    LET ds == LeadingDigits(Trim(t))
    IN  IF ds = << >> THEN NaN ELSE << DecimalValue(ds) >>

HourCellInteger(row) ==
    IF HourCells(row) = << >> THEN NaN
    ELSE LeadingInteger(CellText(HourCells(row)[1]))

FirstCellInteger(row) ==
    IF row = << >> THEN NaN ELSE LeadingInteger(CellText(row[1]))

HourBySpec(row) ==
    IF ~isNaN(HourCellInteger(row)) THEN HourCellInteger(row)
    ELSE FirstCellInteger(row)

Added == SubSeq(departures', Len(departures) + 1, Len(departures'))

\* C25: the Departures a row adds all carry the integer its hour cell
\* (.col-hour) starts with when the row has such a cell and it starts with
\* an integer, and otherwise the integer the text of its first cell starts
\* with; a row for which neither gives an integer adds none.
C25_HourSource ==
    [][ RowStep =>
            /\ departures = SubSeq(departures', 1, Len(departures))
            /\ isNaN(HourBySpec(timetableRows[ri])) => Added = << >>
            /\ \A k \in 1..Len(Added) :
                  Added[k].hour = HourBySpec(timetableRows[ri])[1] ]_vars

\* C25 witness: a row whose first cell reads 9 and whose hour cell reads 8
\* has given Departures of hour 8.
C25_Witness ==
    /\ pc = "extracted"
    /\ Len(timetableRows) >= 1
    /\ ~isNaN(FirstCellInteger(timetableRows[1]))
    /\ ~isNaN(HourCellInteger(timetableRows[1]))
    /\ FirstCellInteger(timetableRows[1]) # HourCellInteger(timetableRows[1])
    /\ Len(outcome.value) > 0
    /\ \A k \in 1..Len(outcome.value) : outcome.value[k].hour = 8

RouteAnswered == pc = "r_done" /\ Len(res) = 1 /\ res[1].status = 200

TimeUnparsable(sec) ==
    ~Search(HourMinPattern, TimeText(sec)).ok /\ ~Search(MinPattern, TimeText(sec)).ok

FareUnparsable(sec) == \A k \in 1..Len(FareText(sec)) : FareText(sec)[k] \notin Digits

TransferUnparsable(sec) == ~Search(TimesPattern, TransferText(sec)).ok

DistanceUnparsable(sec) == ~DistanceMatch(DistanceText(sec)).ok

RouteNeverEmpty ==
    /\ Len(res[1].body.route) >= 1
    /\ RouteList(page.section) = << >> =>
          /\ Len(res[1].body.route) = 1
          /\ res[1].body.route[1].from = req.from
          /\ res[1].body.route[1].to = req.to
          /\ res[1].body.route[1].time = res[1].body.totalTime
    /\ RouteList(page.section) # << >> => res[1].body.route = RouteList(page.section)

\* C26 as stated: in every 200 response of the route search totalTime,
\* totalCost, transferCount and distance are 0 when their text cannot be
\* parsed, and route is not empty: with no step extracted it is the one
\* fallback step, from and to taken from the request and time = totalTime.
C26_DefaultsAsStated ==
    RouteAnswered =>
        /\ TimeUnparsable(page.section) => res[1].body.totalTime = 0
        /\ FareUnparsable(page.section) => res[1].body.totalCost = 0
        /\ TransferUnparsable(page.section) => res[1].body.transferCount = 0
        /\ DistanceUnparsable(page.section) => res[1].body.distance = 0
        /\ RouteNeverEmpty

\* C26 as amended: the same, except that with a transfer text that cannot
\* be parsed transferCount is 0 only when the section lists at most one
\* train step inside an element whose class contains "route", and one less
\* than the number of those steps otherwise.
C26_Defaults ==
    RouteAnswered =>
        /\ TimeUnparsable(page.section) => res[1].body.totalTime = 0
        /\ FareUnparsable(page.section) => res[1].body.totalCost = 0
        /\ TransferUnparsable(page.section) =>
              res[1].body.transferCount =
                  IF Len(TrainSections(page.section)) > 1
                  THEN Len(TrainSections(page.section)) - 1
                  ELSE 0
        /\ DistanceUnparsable(page.section) => res[1].body.distance = 0
        /\ RouteNeverEmpty

\* C26 witness: a 200 response whose fare, transfer count and distance are
\* the default 0, whose time was parsed, and whose route is the one fallback
\* step carrying that time.
C26_Witness ==
    /\ RouteAnswered
    /\ FareUnparsable(page.section)
    /\ TransferUnparsable(page.section)
    /\ DistanceUnparsable(page.section)
    /\ RouteList(page.section) = << >>
    /\ res[1].body.totalTime = 65
    /\ res[1].body.totalCost = 0
    /\ res[1].body.transferCount = 0
    /\ res[1].body.distance = 0
    /\ res[1].body.route = << FallbackStep(req, 65) >>

\* C27: on the station page, whatever tabs and day types have been chosen,
\* selectedTab is an index of station.timetables[scheduleType], so that
\* the Timetable whose departures the render reads is defined.
C27_SelectedTabValid ==
    pc \in {"p_first", "p_render", "p_mounting", "p_shown", "p_crashed"}
        /\ pageStation # NoStation =>
            /\ selectedTab < Len(currentTimetables)
            /\ pc # "p_crashed"

\* C28: the cycle of the API handler never changes a station's timetables:
\* what scrapeTimetableForStation returns for a station is the timetables
\* it already has, so the list in memory stays the list read, and the store
\* written, like the store at every other moment, is the store read.
C28_HandlerKeepsTimetables ==
    /\ store = store0
    /\ ioLog # << >> /\ ioLog[1] = "read" => stations = store0
    /\ \A i \in 1..Len(stations) :
          scrapeTimetableForStation(stations[i]) = store0[i].timetables

\* C28 witness: the handler has answered 200 for a store of two stations,
\* reporting both as updated, and the store is what it was.
C28_Witness ==
    /\ Answered(200)
    /\ Len(store0) = 2
    /\ res[1].body.updatedStations = 2
    /\ ioLog = << "read", "write" >>
    /\ store = store0

Unconfigured(i) == store0[i].id \notin DOMAIN STATION_CONFIG

C29_Inv ==
    /\ \A k \in 1..Len(visited) :
          Unconfigured(visited[k]) =>
              /\ \A y \in yields : y.station # visited[k]
              /\ \A r \in scraped : r.station # visited[k]
              /\ visited[k] \notin updated
              /\ stations[visited[k]] = store0[visited[k]]
              /\ pc = "written" => store[visited[k]] = store0[visited[k]]
    /\ pc = "await" => ~Unconfigured(si)
    /\ updatedCount <= Cardinality({ k \in 1..Len(visited) : ~Unconfigured(visited[k]) })

C29_Step ==
    visited' # visited /\ Unconfigured(si) =>
        /\ updatedCount' = updatedCount
        /\ stations' = stations
        /\ inFlight' = {}

\* C29: a station whose id has no entry in STATION_CONFIG is skipped by the
\* script: no fetch is issued while it is the current station and none is
\* recorded for it, its record stays the one read, in memory and in the
\* written store, and it is not counted as updated.
C29_UnconfiguredSkipped == [] C29_Inv /\ [][C29_Step]_vars

\* C29 witness: the store has been written after an unconfigured first
\* station was passed over and the second station was updated.
C29_Witness ==
    /\ pc = "written"
    /\ Len(store0) = 2
    /\ store0[1].id = "unknown_station"
    /\ visited = << 1, 2 >>
    /\ updated = {2}
    /\ updatedCount = 1
    /\ store[1] = store0[1]

C30_Inv ==
    /\ pending <= 1
    /\ updating <=> pending = 1
    /\ updating => ~ButtonEnabled

C30_Step ==
    /\ pending' > pending => ~updating /\ updating'
    /\ pending' < pending => ~updating'
    /\ updating /\ ~updating' => pending' = 0

\* C30: on the index page updating is true exactly while an update request
\* of the page is awaited: it becomes true in the step that sends the
\* request and false in the step that handles its outcome, on the success
\* and on the error path alike; while it is true the button is disabled,
\* and at most one request is in flight.
C30_UpdatingGuardsRequest == [] C30_Inv /\ [][C30_Step]_vars

\* C30 witness: a second request is in flight, updating true, after the
\* first one failed and showed its error.
C30_Witness ==
    /\ clicks = 2
    /\ pending = 1
    /\ updating
    /\ snackbar.open
    /\ snackbar.severity = "error"

====
